---- MODULE Spec2Model ----
(***************************************************************************)
(* Model of fstransform:                                                   *)
(*   - ft_io_posix (fsremap/src/tmp_zero.cc): open / close / storage        *)
(*   - fm_io_posix (io/io_posix.cc of fsmove): the recursive tree mover     *)
(* Every handler is one action; the results of the system calls it makes   *)
(* are drawn from an oracle record chosen with \E.                         *)
(***************************************************************************)
EXTENDS Integers, Sequences, FiniteSets, TLC

(***************************************************************************)
(* Bounds of the model                                                     *)
(***************************************************************************)
\* width of ft_uoff in bits (64 in the program)
UoffBits == 4
\* largest device length the environment reports
MaxDevLen == 3
\* largest number of primary-storage extents
MaxExtents == 2
\* number of different dev_t values
MaxDevId == 2
\* descriptors the process may hold open at once
MaxOpenFds == 4
\* largest secondary_len that is asked for, the overflow cases apart
MaxSecLen == 3
\* largest length of a regular file of the source tree
MaxFileLen == 1
\* number of different time stamps of the source tree
MaxTime == 1
\* width of ft_uint in bits (32 in the program)
UintBits == 2
\* largest number of command-line arguments after the program name
MaxArgs == 4
\* largest device the hole zeroer is run on
MaxZeroLen == 4
\* read_extents() calls that append to the caller's vectors
MaxReads == 1
\* largest length of the stream copy_stream() copies
MaxCopyLen == 3

(***************************************************************************)
(* Program constants                                                       *)
(***************************************************************************)
FC_DEVICE == 0
FC_LOOP_FILE == 1
FC_ZERO_FILE == 2
FC_FILE_COUNT == 3
FC_SECONDARY_STORAGE == 3
FC_ALL_FILE_COUNT == 4
FC_PRIMARY_STORAGE == 4
\* (void *) -1
MAP_FAILED == -1
\* the write() fallback chunk, 64*1024 in the program, scaled to the model's sizes
zero_len == 2
\* the buffer of zeros of the hole zeroer, 1024*1024 in the program, scaled likewise
ZERO_BUF_LEN == 2
\* sizeof(buf) of copy_stream(), 65536 in the program, scaled likewise
COPY_BUF_LEN == 2

EPERM == 1
ENOENT == 2
EINTR == 4
EIO == 5
EBADF == 9
ENOMEM == 12
EFAULT == 14
EEXIST == 17
EXDEV == 18
ENOTDIR == 20
EINVAL == 22
ENOSPC == 28
EOVERFLOW == 75
EOPNOTSUPP == 95
EISCONN == 106
ENOTCONN == 107

(***************************************************************************)
(* Integer types                                                           *)
(***************************************************************************)
RECURSIVE Pow2(_)
Pow2(n) == IF n = 0 THEN 1 ELSE 2 * Pow2(n - 1)

\* ft_uoff: unsigned, UoffBits wide
UoffMod == Pow2(UoffBits)
\* ft_off (off_t): signed, as wide as ft_uoff
OffMax == Pow2(UoffBits - 1) - 1
\* ft_size (size_t): unsigned; one bit narrower than ft_uoff, as on a platform
\* where off_t is wider than size_t
SizeMod == Pow2(UoffBits - 1)

ToUoff(n) == n % UoffMod
ToSize(n) == n % SizeMod
\* (ft_off) len of an ft_uoff: two's complement
ToOff(n) == IF n % UoffMod > OffMax THEN (n % UoffMod) - UoffMod ELSE n % UoffMod

ff_min2(a, b) == IF a < b THEN a ELSE b

RECURSIVE SumLen(_)
SumLen(s) == IF s = <<>> THEN 0 ELSE Head(s).length + SumLen(Tail(s))

VARIABLES
    io,       \* the ft_io_posix object and the OS resources it refers to
    io_pc,    \* the caller's position: "idle" before create_storage(), "fill" inside
              \* the zero-fill loop of create_secondary_storage(), "ran" after the call
    fill,     \* locals of create_storage / create_secondary_storage while io_pc = "fill"
    io_call,  \* the last completed call: operation, arguments, oracle, return value
    ext,      \* the caller's extent vectors and block-size bitmask, which
              \* read_extents() appends to
    fs,       \* the file system the tree mover works on: path -> inode
    mv_sim,   \* simulate_run() of the tree mover
    mv_call,  \* the last completed call of the tree mover, with its system calls
    cp,       \* a run of copy_stream(): its position, its locals, the two streams
    tr,       \* an ft_transform object and the job directories on disk
    tr_call,  \* the last completed call of ft_transform
    zh        \* a run of ff_zero_loop_file_holes(): its position, its locals, the device

io_vars == <<io, io_pc, fill, io_call, ext>>
mv_vars == <<fs, mv_sim, mv_call, cp>>
tr_vars == <<tr, tr_call>>
zh_vars == <<zh>>
vars == <<io, io_pc, fill, io_call, ext, fs, mv_sim, mv_call, cp, tr, tr_call, zh>>

(***************************************************************************)
(* ft_io_posix: the object, the descriptors and the storage mapping        *)
(***************************************************************************)
\* address the anonymous reservation is placed at
MmapAddr == 32

Slots == 0..(FC_ALL_FILE_COUNT - 1)
DevIds == 1..MaxDevId
Bytes == {0, 1}

NoExtent == [physical |-> 0, logical |-> 0, length |-> 0, user_data |-> 0]

\* ft_io_posix::ft_io_posix(): fd[] = -1, storage_mmap = MAP_FAILED, storage_mmap_size = 0
NewIo(fallocate) ==
    [fd |-> [i \in Slots |-> -1],
     dev_len |-> 0,
     storage_mmap |-> MAP_FAILED,
     storage_mmap_size |-> 0,
     primary_storage |-> <<>>,
     secondary_storage |-> NoExtent,
     have_fallocate |-> fallocate,          \* FT_HAVE_POSIX_FALLOCATE of the build
     os_open |-> {},                        \* descriptors open in the process
     sec_file |-> [exists |-> FALSE, data |-> <<>>],   \* job_dir() + ".storage"
     mem |-> <<>>,                          \* what is mapped at storage_mmap + k
     leaked |-> FALSE,                      \* a munmap() of the reservation failed
     stray |-> FALSE]                       \* close() was called on a descriptor read
                                            \* from outside fd[]

\* open(2) returns the lowest descriptor not in use; 0, 1, 2 are the standard streams
LowestFree(open_fds) ==
    CHOOSE n \in 3..(3 + Cardinality(open_fds)) :
        n \notin open_fds /\ \A m \in 3..(n - 1) : m \in open_fds

is_open0(w, i) == w.fd[i] >= 0

\* close0(i). An index outside fd[] reads whatever lies there: 'ub' is that value,
\* negative (nothing happens) or not (it is passed to close()).
close0(w, i, ub) ==
    IF i \in Slots
    THEN IF w.fd[i] >= 0
         THEN [w EXCEPT !.os_open = @ \ {w.fd[i]}, !.fd[i] = -1]
         ELSE w
    ELSE IF ub >= 0 THEN [w EXCEPT !.stray = TRUE] ELSE w

is_open(w) == w.dev_len # 0 /\ is_open0(w, FC_DEVICE)

\* ft_io::close() of the base class: forgets the device length
super_close(w) == [w EXCEPT !.dev_len = 0]

\* close_storage(): munmap the reservation, then close0(FC_PRIMARY_STORAGE)
close_storage(w, munmap_ok, ub) ==
    LET w1 == IF w.storage_mmap # MAP_FAILED
              THEN [w EXCEPT !.mem = IF munmap_ok THEN <<>> ELSE @,
                             !.leaked = @ \/ ~munmap_ok,
                             !.storage_mmap = MAP_FAILED]
              ELSE w
        w2 == [w1 EXCEPT !.storage_mmap_size = 0]
    IN close0(w2, FC_PRIMARY_STORAGE, ub)

RECURSIVE close_fds(_, _, _)
close_fds(w, i, ub) ==
    IF i >= FC_FILE_COUNT THEN w ELSE close_fds(close0(w, i, ub), i + 1, ub)

\* close(): close_storage(), close0() of DEVICE, LOOP-FILE, ZERO-FILE, super_type::close()
close(w, munmap_ok, ub) ==
    super_close(close_fds(close_storage(w, munmap_ok, ub), 0, ub))

\* close_extents(): close0() of LOOP-FILE and ZERO-FILE
close_extents(w) == close0(close0(w, FC_LOOP_FILE, -1), FC_ZERO_FILE, -1)

(***************************************************************************)
(* ft_io_posix::is_open_extents, read_extents                              *)
(***************************************************************************)
\* bitwise OR of two ft_uoff
RECURSIVE BitOr(_, _)
BitOr(a, b) ==
    IF a = 0 THEN b
    ELSE IF b = 0 THEN a
    ELSE (IF a % 2 = 1 \/ b % 2 = 1 THEN 1 ELSE 0) + 2 * BitOr(a \div 2, b \div 2)

\* a bool converted to int, as '!' yields it
BoolInt(b) == IF b THEN 1 ELSE 0

\* ft_size which[] = { FC_LOOP_FILE, FC_ZERO_FILE }
which == <<FC_LOOP_FILE, FC_ZERO_FILE>>

\* lines 265-267: the value of i when the loop ends (i counts from 0)
RECURSIVE is_open_extents_loop(_, _)
is_open_extents_loop(w, i) ==
    IF i >= Len(which) THEN i
    ELSE IF BoolInt(~is_open0(w, which[i + 1])) < 0 THEN i
    ELSE is_open_extents_loop(w, i + 1)

is_open_extents(w) ==
    IF w.dev_len # 0 THEN is_open_extents_loop(w, 0) = Len(which) ELSE FALSE

\* the caller's vectors and bitmask before any read_extents()
NoExt == [loop_file_extents |-> <<>>, free_space_extents |-> <<>>, block_size_bitmask |-> 0]

\* bitwise OR of the offsets and lengths of a vector of extents
RECURSIVE ExtentsMask(_)
ExtentsMask(es) ==
    IF es = <<>> THEN 0
    ELSE BitOr(BitOr(Head(es).physical, Head(es).logical),
               BitOr(Head(es).length, ExtentsMask(Tail(es))))

\* ff_read_extents_posix(fd, dev_length, vector, bitmask): the extents of the
\* file behind fd are appended to the vector and OR-ed into the bitmask; res
\* is what the system reports for the file, a closed descriptor is EBADF
ff_read_extents_posix(w, fdnum, vector, bitmask, res) ==
    IF fdnum \notin w.os_open
    THEN [err |-> EBADF, vector |-> vector, bitmask |-> bitmask, asked |-> 1]
    ELSE IF res.err # 0
    THEN [err |-> res.err, vector |-> vector, bitmask |-> bitmask, asked |-> 1]
    ELSE [err |-> 0, vector |-> vector \o res.extents,
          bitmask |-> BitOr(bitmask, ExtentsMask(res.extents)), asked |-> 1]

\* read_extents() that hands the working bitmask back whatever the result
read_extents_stores_always(w, e, orc) ==
    IF ~is_open_extents(w)
    THEN [err |-> ENOTCONN, ext |-> e, asked |-> 0]
    ELSE
    LET l == ff_read_extents_posix(w, w.fd[FC_LOOP_FILE], e.loop_file_extents,
                                   e.block_size_bitmask, orc.loop)
        z == ff_read_extents_posix(w, w.fd[FC_ZERO_FILE], e.free_space_extents,
                                   l.bitmask, orc.zero)
    IN  IF l.err # 0
        THEN [err |-> l.err, ext |-> [e EXCEPT !.loop_file_extents = l.vector], asked |-> 1]
        ELSE [err |-> z.err,
              ext |-> [loop_file_extents |-> l.vector, free_space_extents |-> z.vector,
                       block_size_bitmask |-> z.bitmask],
              asked |-> 2]

\* what read_extents() returns and leaves in the caller's variables; 'asked'
\* counts the calls of ff_read_extents_posix()
read_extents(w, e, orc) ==
    IF ~is_open_extents(w)
    THEN [err |-> ENOTCONN, ext |-> e, asked |-> 0]
    ELSE
    LET l == ff_read_extents_posix(w, w.fd[FC_LOOP_FILE], e.loop_file_extents,
                                   e.block_size_bitmask, orc.loop)
        z == ff_read_extents_posix(w, w.fd[FC_ZERO_FILE], e.free_space_extents,
                                   l.bitmask, orc.zero)
    IN  IF l.err # 0
        THEN [err |-> l.err, ext |-> [e EXCEPT !.loop_file_extents = l.vector], asked |-> 1]
        ELSE IF z.err # 0
        THEN [err |-> z.err,
              ext |-> [e EXCEPT !.loop_file_extents = l.vector,
                                !.free_space_extents = z.vector],
              asked |-> 2]
        ELSE [err |-> 0,
              ext |-> [loop_file_extents |-> l.vector, free_space_extents |-> z.vector,
                       block_size_bitmask |-> z.bitmask],
              asked |-> 2]

(***************************************************************************)
(* ft_io_posix::open                                                       *)
(***************************************************************************)
\* results of the system calls of one open(): the step that fails (if any),
\* the dev_t the three paths report, the device size, and the cleanup results
OpenOrc(step, i, dev, size, munmap_ok, ub) ==
    [fail_step |-> step, fail_i |-> i, dev |-> dev, size |-> size,
     munmap_ok |-> munmap_ok, ub |-> ub]

NoOrc == OpenOrc("none", 0, [i \in 0..(FC_FILE_COUNT - 1) |-> 1], 0, TRUE, -1)

\* the loop of open() without the comparison of line 227
RECURSIVE open_loop_nocompare(_, _, _)
open_loop_nocompare(w, i, orc) ==
    IF i >= FC_FILE_COUNT THEN [w |-> w, err |-> 0]
    ELSE
    LET nfd == IF orc.fail_step = "open" /\ orc.fail_i = i THEN -1 ELSE LowestFree(w.os_open)
        w1 == [w EXCEPT !.fd[i] = nfd,
                        !.os_open = IF nfd >= 0 THEN @ \cup {nfd} ELSE @]
    IN  IF nfd < 0 THEN [w |-> w1, err |-> ENOENT]
        ELSE IF orc.fail_step = "dev" /\ orc.fail_i = i THEN [w |-> w1, err |-> EIO]
        ELSE IF i = FC_DEVICE
             THEN IF orc.fail_step = "size" THEN [w |-> w1, err |-> EIO]
                  ELSE open_loop_nocompare([w1 EXCEPT !.dev_len = orc.size], i + 1, orc)
             ELSE open_loop_nocompare(w1, i + 1, orc)

\* lines 189-234: open each path, read its dev_t, the device size, compare
RECURSIVE open_loop(_, _, _)
open_loop(w, i, orc) ==
    IF i >= FC_FILE_COUNT THEN [w |-> w, err |-> 0]
    ELSE
    LET nfd == IF orc.fail_step = "open" /\ orc.fail_i = i THEN -1 ELSE LowestFree(w.os_open)
        w1 == [w EXCEPT !.fd[i] = nfd,
                        !.os_open = IF nfd >= 0 THEN @ \cup {nfd} ELSE @]
    IN  IF nfd < 0 THEN [w |-> w1, err |-> ENOENT]
        ELSE IF orc.fail_step = "dev" /\ orc.fail_i = i THEN [w |-> w1, err |-> EIO]
        ELSE IF i = FC_DEVICE
             THEN IF orc.fail_step = "size" THEN [w |-> w1, err |-> EIO]
                  ELSE open_loop([w1 EXCEPT !.dev_len = orc.size], i + 1, orc)
             ELSE IF orc.dev[FC_DEVICE] # orc.dev[i] THEN [w |-> w1, err |-> EINVAL]
                  ELSE open_loop(w1, i + 1, orc)

\* open() that returns the error without calling close()
open_noclose(w, orc) ==
    IF is_open(w) THEN [w |-> w, err |-> EISCONN] ELSE open_loop(w, 0, orc)

open(w, orc) ==
    IF is_open(w) THEN [w |-> w, err |-> EISCONN]
    ELSE LET r == open_loop(w, 0, orc)
         IN  IF r.err # 0 THEN [w |-> close(r.w, orc.munmap_ok, orc.ub), err |-> r.err] ELSE r

(***************************************************************************)
(* ft_io_posix::create_storage and its helpers                             *)
(***************************************************************************)
Cell(kind, off) == [kind |-> kind, off |-> off]

\* the cells [start, start + len) of the reservation replaced by 'cell(k)'
Remap(mem, start, len, kind, phys) ==
    [k \in 1..Len(mem) |->
        IF k > start /\ k <= start + len THEN Cell(kind, phys + (k - start - 1)) ELSE mem[k]]

\* What a create_storage() in progress carries from one step to the next:
\* the object, the pending error, and what the call did so far.
CsState(w, err, secondary_len) ==
    [w |-> w, err |-> err, secondary_len |-> secondary_len,
     reserved |-> FALSE,        \* the anonymous reservation was mapped
     sec_created |-> FALSE,     \* open(path, O_CREAT) of the secondary file succeeded
     falloc_failed |-> FALSE,   \* posix_fallocate() was tried and failed
     filled |-> FALSE,          \* the write() loop ran to pos >= mem_len
     written |-> 0,             \* bytes the write() loop wrote
     wrote_zero |-> FALSE,      \* a write() of the loop returned 0
     chunk_max |-> 0,           \* largest count passed to write()
     mem_offset |-> 0,          \* the running offset of the replace loop
     replaced |-> 0,            \* extents replace_storage_mmap() mapped
     moved |-> FALSE,           \* a MAP_FIXED mmap() returned another address
     munmap_failed |-> FALSE,   \* the munmap() of close_storage() failed
     user_data0 |->             \* user_data() of the extents at entry, secondary last
         [k \in 1..Len(w.primary_storage) |-> w.primary_storage[k].user_data]
             \o <<w.secondary_storage.user_data>>,
     unlinked |-> FALSE,        \* unlink(path) was called and succeeded
     unlink_failed |-> FALSE,   \* unlink(path) was called and failed
     css_err |-> 0,             \* what create_secondary_storage() returned
     primary_sum |-> SumLen(w.primary_storage),   \* sum of the primary lengths at entry
     stage |-> "returned",      \* where the call stands (see create_storage_begin)
     mem_len |-> 0, pos |-> 0,  \* locals of the write() loop
     buf |-> [k \in 1..zero_len |-> 0]]         \* contents of 'char zero[zero_len]'

\* replace_storage_mmap() that stores the offset in the reservation, not the
\* address, into user_data
replace_storage_mmap_offset_stored(w, fdnum, kind, extent, mem_offset, outcome) ==
    LET len == ToSize(extent.length)
        mem_end == ToSize(mem_offset + len)
        hole == [w EXCEPT !.mem = Remap(@, mem_offset, len, "hole", 0)]
    IN  IF mem_offset >= w.storage_mmap_size \/ mem_end > w.storage_mmap_size
        THEN [w |-> w, err |-> -EINVAL, extent |-> extent, mem_offset |-> mem_offset]
        ELSE IF outcome = "munmap" \/ len = 0
        THEN [w |-> w, err |-> EINVAL, extent |-> extent, mem_offset |-> mem_offset]
        ELSE IF outcome = "mmap" \/ fdnum \notin w.os_open
        THEN [w |-> hole, err |-> EBADF, extent |-> extent, mem_offset |-> mem_offset]
        ELSE IF outcome = "moved"
        THEN [w |-> hole, err |-> -EFAULT, extent |-> extent, mem_offset |-> mem_offset]
        ELSE [w |-> [w EXCEPT !.mem = Remap(@, mem_offset, len, kind, extent.physical)],
              err |-> 0,
              extent |-> [extent EXCEPT !.user_data = mem_offset],
              mem_offset |-> ToSize(mem_offset + len)]

\* replace_storage_mmap() that, when mmap() returns another address, goes on
\* to store it and to advance the offset before it fails
replace_storage_mmap_moved_stored(w, fdnum, kind, extent, mem_offset, outcome) ==
    LET len == ToSize(extent.length)
        mem_end == ToSize(mem_offset + len)
    IN  IF mem_offset >= w.storage_mmap_size \/ mem_end > w.storage_mmap_size
        THEN [w |-> w, err |-> -EINVAL, extent |-> extent, mem_offset |-> mem_offset]
        ELSE IF outcome = "munmap" \/ len = 0
        THEN [w |-> w, err |-> EINVAL, extent |-> extent, mem_offset |-> mem_offset]
        ELSE IF outcome = "mmap" \/ fdnum \notin w.os_open
        THEN [w |-> [w EXCEPT !.mem = Remap(@, mem_offset, len, "hole", 0)],
              err |-> EBADF, extent |-> extent, mem_offset |-> mem_offset]
        ELSE [w |-> [w EXCEPT !.mem = Remap(@, mem_offset, len,
                                            IF outcome = "moved" THEN "hole" ELSE kind,
                                            extent.physical)],
              err |-> IF outcome = "moved" THEN -EFAULT ELSE 0,
              extent |-> [extent EXCEPT !.user_data = w.storage_mmap + mem_offset],
              mem_offset |-> ToSize(mem_offset + len)]

\* replace_storage_mmap(fd, label, extent, index, ret_mem_offset);
\* outcome is "ok", or the call that fails: "munmap", "mmap", or "moved"
\* (mmap() returned an address other than the one asked for)
replace_storage_mmap(w, fdnum, kind, extent, mem_offset, outcome) ==
    LET len == ToSize(extent.length)
        mem_start == mem_offset
        mem_end == ToSize(mem_start + len)
        hole == [w EXCEPT !.mem = Remap(@, mem_start, len, "hole", 0)]
    IN  IF mem_start >= w.storage_mmap_size \/ mem_end > w.storage_mmap_size
        THEN [w |-> w, err |-> -EINVAL, extent |-> extent, mem_offset |-> mem_offset]
        ELSE IF outcome = "munmap" \/ len = 0
        THEN [w |-> w, err |-> EINVAL, extent |-> extent, mem_offset |-> mem_offset]
        ELSE IF outcome = "mmap" \/ fdnum \notin w.os_open
        THEN [w |-> hole, err |-> EBADF, extent |-> extent, mem_offset |-> mem_offset]
        ELSE IF outcome = "moved"
        THEN [w |-> hole, err |-> -EFAULT, extent |-> extent, mem_offset |-> mem_offset]
        ELSE [w |-> [w EXCEPT !.mem = Remap(@, mem_start, len, kind, extent.physical)],
              err |-> 0,
              extent |-> [extent EXCEPT !.user_data = w.storage_mmap + mem_start],
              mem_offset |-> ToSize(mem_offset + len)]

\* outcome of the replace_storage_mmap() call number k (the secondary extent
\* is call Len(primary_storage) + 1)
RepOutcome(rep, k) == IF rep.k = k THEN rep.kind ELSE "ok"

\* lines 406-407: for (iter = begin; err == 0 && iter != end; ++iter)
RECURSIVE replace_primary(_, _, _)
replace_primary(c, k, rep) ==
    IF c.err # 0 \/ k > Len(c.w.primary_storage) THEN c
    ELSE LET r == replace_storage_mmap(c.w, c.w.fd[FC_DEVICE], "dev",
                                       c.w.primary_storage[k], c.mem_offset,
                                       RepOutcome(rep, k))
         IN  replace_primary(
                 [c EXCEPT !.w = [r.w EXCEPT !.primary_storage[k] = r.extent],
                           !.err = r.err,
                           !.mem_offset = r.mem_offset,
                           !.replaced = IF r.err = 0 THEN @ + 1 ELSE @,
                           !.moved = @ \/ r.err = -EFAULT],
                 k + 1, rep)

\* lines 411-414: the secondary extent
replace_secondary(c, rep) ==
    IF c.err # 0 \/ c.secondary_len = 0 THEN c
    ELSE LET r == replace_storage_mmap(c.w, c.w.fd[FC_SECONDARY_STORAGE], "sec",
                                       c.w.secondary_storage, c.mem_offset,
                                       RepOutcome(rep, Len(c.w.primary_storage) + 1))
         IN  [c EXCEPT !.w = [r.w EXCEPT !.secondary_storage = r.extent],
                       !.err = r.err,
                       !.mem_offset = r.mem_offset,
                       !.replaced = IF r.err = 0 THEN @ + 1 ELSE @,
                       !.moved = @ \/ r.err = -EFAULT]

\* lines 415-419: the final offset check
check_offset(c) ==
    IF c.err = 0 /\ c.mem_offset # c.w.storage_mmap_size THEN [c EXCEPT !.err = EINVAL] ELSE c

\* lines 576-582 of create_secondary_storage(): the cleanup when err != 0
css_cleanup(c, unlink_ok, ub) ==
    IF c.err = 0 THEN c
    ELSE LET need_unlink == is_open0(c.w, FC_SECONDARY_STORAGE)
             w1 == close0(c.w, c.w.fd[FC_SECONDARY_STORAGE], ub)
         IN  [c EXCEPT !.w = IF need_unlink /\ unlink_ok
                             THEN [w1 EXCEPT !.sec_file = [exists |-> FALSE, data |-> <<>>]]
                             ELSE w1,
                       !.unlinked = need_unlink /\ unlink_ok,
                       !.unlink_failed = need_unlink /\ ~unlink_ok]

\* lines 567-570 of create_secondary_storage(): remember the secondary extent
css_record(c) ==
    [c EXCEPT !.w.secondary_storage =
                  [@ EXCEPT !.physical = 0, !.logical = 0, !.length = c.secondary_len]]

\* create_storage() from line 402 to its return, entered with the error of
\* create_secondary_storage() (0 when there is no secondary storage)
\* create_storage() that maps the primary extents only and skips the final check
cs_finish_primary_only(c, rep, munmap_ok, ub) ==
    LET d == replace_primary(c, 1, rep)
    IN  IF d.err = 0 THEN d ELSE [d EXCEPT !.w = close_storage(d.w, munmap_ok, ub)]

cs_finish(c, rep, munmap_ok, ub) ==
    LET d == check_offset(replace_secondary(replace_primary(c, 1, rep), rep))
    IN  IF d.err = 0 THEN d
        ELSE [d EXCEPT !.w = close_storage(d.w, munmap_ok, ub),
                       !.munmap_failed = d.w.storage_mmap # MAP_FAILED /\ ~munmap_ok]

Zeros(n) == [k \in 1..n |-> 0]

\* create_secondary_storage() up to the write() loop (lines 510-553).
\* stage "css_fail": left the do-while before line 567; "css_tail": reached
\* line 567 without entering the loop; "fill": inside the loop.
create_secondary_storage_begin(c, fail) ==
    LET len == c.secondary_len
        s_len == ToOff(len)
        mem_len == ToSize(len)
        nfd == LowestFree(c.w.os_open)
    IN  IF s_len < 0 \/ len # ToUoff(s_len)
        THEN [c EXCEPT !.err = EOVERFLOW, !.stage = "css_fail"]
        ELSE IF len # mem_len
        THEN [c EXCEPT !.err = EOVERFLOW, !.stage = "css_fail"]
        ELSE IF fail = "sec_open"
        THEN [c EXCEPT !.w.fd[FC_SECONDARY_STORAGE] = -1, !.err = EIO, !.stage = "css_fail"]
        ELSE
        LET opened == [c EXCEPT !.w.fd[FC_SECONDARY_STORAGE] = nfd,
                                !.w.os_open = @ \cup {nfd},
                                !.w.sec_file = [exists |-> TRUE, data |-> <<>>],
                                !.sec_created = TRUE,
                                !.mem_len = mem_len]
        IN  IF c.w.have_fallocate
            THEN IF fail # "falloc"
                 THEN [opened EXCEPT !.w.sec_file.data = Zeros(len), !.stage = "css_tail"]
                 ELSE [opened EXCEPT !.err = ENOSPC, !.falloc_failed = TRUE, !.stage = "fill"]
            ELSE [opened EXCEPT !.stage = "fill"]

\* create_storage() up to the end of the first half of create_secondary_storage():
\* the guard (lines 350-356), the reservation (362-394), lines 396-400.
\* 'fail' names the system call that fails: "mmap", "sec_open" (the open() of
\* the secondary file), "falloc" (posix_fallocate()), or "none".
\* stage "returned": the guard refused the call; "unwind": failed before any
\* secondary storage; "replace": no secondary storage wanted.
create_storage_begin(w, secondary_len, fail) ==
    LET c == CsState(w, 0, secondary_len)
        primary_len == ToUoff(SumLen(w.primary_storage))
        total_len == ToUoff(primary_len + secondary_len)
        mem_len == ToSize(total_len)
    IN  IF w.storage_mmap # MAP_FAILED \/ is_open0(w, FC_SECONDARY_STORAGE)
        THEN [c EXCEPT !.err = -EISCONN, !.stage = "returned"]
        ELSE IF total_len # mem_len
        THEN [c EXCEPT !.err = EOVERFLOW, !.stage = "unwind"]
        ELSE IF fail = "mmap" \/ mem_len = 0
        THEN [c EXCEPT !.err = ENOMEM, !.stage = "unwind"]
        ELSE
        LET r == [c EXCEPT !.w.storage_mmap = MmapAddr,
                           !.w.mem = [k \in 1..mem_len |-> Cell("anon", 0)],
                           !.w.storage_mmap_size = mem_len,
                           !.reserved = TRUE]
        IN  IF secondary_len # 0
            THEN create_secondary_storage_begin(r, fail)
            ELSE [r EXCEPT !.stage = "replace"]

\* one iteration of the loop of lines 553-562: r is what write() returned after
\* its EINTR retries (-1: an error), stale is errno when write() returned 0
fill_write(c, r, stale) ==
    LET chunk == ff_min2(zero_len, c.mem_len - c.pos)
        n == ff_min2(r, chunk)
        seen == [c EXCEPT !.chunk_max = IF chunk > @ THEN chunk ELSE @]
    IN  IF r = -1 THEN [seen EXCEPT !.err = EIO, !.stage = "css_tail"]
        ELSE IF r = 0 THEN [seen EXCEPT !.err = stale, !.wrote_zero = TRUE, !.stage = "css_tail"]
        ELSE LET d == [seen EXCEPT !.w.sec_file.data = @ \o SubSeq(c.buf, 1, n),
                                   !.pos = @ + n,
                                   !.written = @ + n]
             IN  IF d.pos < d.mem_len THEN d
                 ELSE [d EXCEPT !.filled = TRUE, !.stage = "css_tail"]

\* create_secondary_storage() from where it left its do-while to its return
css_return(c, unlink_ok, ub) ==
    LET d == css_cleanup(IF c.stage = "css_tail" THEN css_record(c) ELSE c, unlink_ok, ub)
    IN  [d EXCEPT !.css_err = d.err]

\* the rest of create_storage() once create_secondary_storage() has left its loop
create_storage_rest(c, rep, unlink_ok, munmap_ok, ub) ==
    IF c.stage = "returned" THEN c
    ELSE cs_finish(IF c.stage \in {"css_fail", "css_tail"} THEN css_return(c, unlink_ok, ub)
                   ELSE c,
                   rep, munmap_ok, ub)

(***************************************************************************)
(* fm_io_posix: the file system the tree mover works on                    *)
(***************************************************************************)
\* source_root() is "s", target_root() is "t"; "x" is another path of the
\* file system, one a symbolic link may name
source_root == "s"
target_root == "t"
Paths == {"s", "s/a", "s/b", "t", "t/a", "t/b", "x"}
Names == {"a", "b"}

\* "/" stands for the directory holding "s", "t" and "x": it always exists
Parent(p) ==
    CASE p \in {"s/a", "s/b"} -> "s"
      [] p \in {"t/a", "t/b"} -> "t"
      [] OTHER -> "/"

\* dir + '/' + d_name, or "" when the model has no such path
Child(dir, name) ==
    CASE dir = "s" /\ name = "a" -> "s/a"
      [] dir = "s" /\ name = "b" -> "s/b"
      [] dir = "t" /\ name = "a" -> "t/a"
      [] dir = "t" /\ name = "b" -> "t/b"
      [] OTHER -> ""

\* st_mode permission bits: set-uid, owner rw (0600), owner x (0100), group/other (0077)
ModeBits == {"suid", "urw", "ux", "go"}
\* S_IFMT values; "unk" is a type the mover does not know
FileTypes == {"reg", "dir", "lnk", "fifo", "chr", "blk", "sock", "unk"}

\* time stamp of an inode created during the move: later than every source time
Now == MaxTime + 1

Absent ==
    [type |-> "none", data |-> <<>>, mode |-> {}, owner |-> 0, mtime |-> 0,
     link |-> "", ino |-> 0]

Exists(f, p) == p \in Paths /\ f[p].type # "none"
IsDirAt(f, p) == p = "/" \/ (p \in Paths /\ f[p].type = "dir")
Entries(f, dir) == {n \in Names : Exists(f, Child(dir, n))}

RECURSIVE MaxOf(_)
MaxOf(S) == IF S = {} THEN 0 ELSE LET x == CHOOSE y \in S : TRUE
                                      m == MaxOf(S \ {x})
                                  IN  IF x > m THEN x ELSE m

\* a fresh inode number
NewIno(f) == 1 + MaxOf({f[p].ino : p \in Paths})

\* the inode a creating call makes: owned by the caller (root), stamped now
NewNode(f, type, mode, link) ==
    [type |-> type, data |-> <<>>, mode |-> mode, owner |-> 0, mtime |-> Now,
     link |-> link, ino |-> NewIno(f)]

\* the path a name leads to once symbolic links are followed ("" when there is none)
RECURSIVE Resolve(_, _, _)
Resolve(f, p, hops) ==
    IF p \notin Paths THEN ""
    ELSE IF f[p].type # "lnk" THEN p
    ELSE IF hops = 0 THEN ""
    ELSE Resolve(f, f[p].link, hops - 1)

Follow(f, p) == Resolve(f, p, Cardinality(Paths))

\* the environment of one call: the file system, the system calls made so
\* far, and the oracle: simulate_run(), the system call that the system
\* refuses (fault), whether source and target are on different file systems
\* (xdev), and the order readdir() lists names in
World(f, sim, fault, xdev, order) ==
    [fs |-> f, log |-> <<>>, sim |-> sim, fault |-> fault, xdev |-> xdev, order |-> order]

NoFault == <<"none", "">>

\* one system call: op on path p, failing with errno e or, when e = 0,
\* leaving the file system f2
Sys(w, op, p, e, f2) ==
    LET err == IF w.fault = <<op, p>> THEN EIO ELSE e
    IN  [w |-> [w EXCEPT !.fs = IF err = 0 THEN f2 ELSE @,
                         !.log = Append(@, <<op, p, err>>)],
         err |-> err]

\* errno of a call that creates the entry p
CreateErr(f, p) ==
    IF p \notin Paths THEN ENOENT
    ELSE IF Exists(f, p) THEN EEXIST
    ELSE IF ~IsDirAt(f, Parent(p)) THEN ENOENT
    ELSE 0

\* entry p becomes 'node'; adding or removing an entry stamps its directory
Put(f, p, node) ==
    IF p \notin Paths THEN f
    ELSE IF Parent(p) \in Paths
         THEN [f EXCEPT ![p] = node, ![Parent(p)].mtime = Now]
         ELSE [f EXCEPT ![p] = node]

sys_lstat(w, p) == Sys(w, "lstat", p, IF Exists(w.fs, p) THEN 0 ELSE ENOENT, w.fs)

sys_mknod(w, p, type, mode) ==
    Sys(w, "mknod", p, CreateErr(w.fs, p), Put(w.fs, p, NewNode(w.fs, type, mode, "")))

sys_mkfifo(w, p, mode) ==
    Sys(w, "mkfifo", p, CreateErr(w.fs, p), Put(w.fs, p, NewNode(w.fs, "fifo", mode, "")))

sys_mkdir(w, p, mode) ==
    Sys(w, "mkdir", p, CreateErr(w.fs, p), Put(w.fs, p, NewNode(w.fs, "dir", mode, "")))

sys_readlink(w, p) ==
    Sys(w, "readlink", p, IF Exists(w.fs, p) /\ w.fs[p].type = "lnk" THEN 0 ELSE EINVAL, w.fs)

\* symlink(text, p): creates the link p, whose contents are text
sys_symlink(w, text, p) ==
    Sys(w, "symlink", p, CreateErr(w.fs, p), Put(w.fs, p, NewNode(w.fs, "lnk", ModeBits, text)))

\* open(p, O_RDONLY)
sys_open_rd(w, p) ==
    LET q == Follow(w.fs, p)
    IN  Sys(w, "open_rd", p, IF Exists(w.fs, q) THEN 0 ELSE ENOENT, w.fs)

\* open(p, O_CREAT|O_WRONLY, mode): an existing file is opened as it is
sys_open_wr(w, p, mode) ==
    LET q == Follow(w.fs, p)
        e == IF q = "" THEN ENOENT
             ELSE IF Exists(w.fs, q)
                  THEN (IF w.fs[q].type = "dir" THEN EPERM ELSE 0)
                  ELSE CreateErr(w.fs, q)
    IN  Sys(w, "open_wr", p, e,
            IF Exists(w.fs, q) THEN w.fs ELSE Put(w.fs, q, NewNode(w.fs, "reg", mode, "")))

sys_close(w, p) == Sys(w, "close", p, 0, w.fs)

\* bytes written at offset 'at' of a file holding 'old'
Overwrite(old, at, bytes) ==
    [k \in 1..(IF at + Len(bytes) > Len(old) THEN at + Len(bytes) ELSE Len(old)) |->
        IF k > at /\ k <= at + Len(bytes) THEN bytes[k - at] ELSE old[k]]

sys_read(w, p) == Sys(w, "read", p, 0, w.fs)

\* write(out_fd, bytes) at file offset 'at'; the descriptor is the inode open() found
sys_write(w, p, at, bytes) ==
    LET q == Follow(w.fs, p)
    IN  Sys(w, "write", p, 0,
            IF q \in Paths
            THEN [w.fs EXCEPT ![q].data = Overwrite(@, at, bytes), ![q].mtime = Now]
            ELSE w.fs)

\* utimes() follows symbolic links
sys_utimes(w, p, mtime) ==
    LET q == Follow(w.fs, p)
    IN  Sys(w, "utimes", p, IF Exists(w.fs, q) THEN 0 ELSE ENOENT,
            IF q \in Paths THEN [w.fs EXCEPT ![q].mtime = mtime] ELSE w.fs)

\* lchown() does not follow symbolic links; it resets the set-uid bit
sys_lchown(w, p, owner) ==
    Sys(w, "lchown", p, IF Exists(w.fs, p) THEN 0 ELSE ENOENT,
        IF p \in Paths
        THEN [w.fs EXCEPT ![p].owner = owner, ![p].mode = @ \ {"suid"}]
        ELSE w.fs)

\* chmod() follows symbolic links
sys_chmod(w, p, mode) ==
    LET q == Follow(w.fs, p)
    IN  Sys(w, "chmod", p, IF Exists(w.fs, q) THEN 0 ELSE ENOENT,
            IF q \in Paths THEN [w.fs EXCEPT ![q].mode = mode] ELSE w.fs)

sys_unlink(w, p) ==
    Sys(w, "unlink", p,
        IF ~Exists(w.fs, p) THEN ENOENT ELSE IF w.fs[p].type = "dir" THEN EPERM ELSE 0,
        Put(w.fs, p, Absent))

sys_rmdir(w, p) ==
    Sys(w, "rmdir", p,
        IF ~Exists(w.fs, p) THEN ENOENT
        ELSE IF w.fs[p].type # "dir" THEN ENOTDIR
        ELSE IF Entries(w.fs, p) # {} THEN EEXIST
        ELSE 0,
        Put(w.fs, p, Absent))

sys_opendir(w, p) ==
    Sys(w, "opendir", p, IF IsDirAt(w.fs, p) THEN 0 ELSE ENOTDIR, w.fs)

sys_readdir(w, p) == Sys(w, "readdir", p, 0, w.fs)

sys_umask(w) == Sys(w, "umask", "", 0, w.fs)

\* the path of the target tree that stands for a path of the source tree
Twin(p) ==
    CASE p = "s" -> "t" [] p = "s/a" -> "t/a" [] p = "s/b" -> "t/b" [] OTHER -> ""

\* rename(source_root, target_root): fails across file systems, else moves the tree
sys_rename(w, s, t) ==
    LET e == IF w.xdev THEN EXDEV
             ELSE IF ~Exists(w.fs, s) THEN ENOENT
             ELSE IF ~Exists(w.fs, t) THEN 0
             ELSE IF w.fs[s].type = "dir"
                  THEN (IF w.fs[t].type # "dir" THEN ENOTDIR
                        ELSE IF Entries(w.fs, t) # {} THEN EEXIST ELSE 0)
                  ELSE (IF w.fs[t].type = "dir" THEN EPERM ELSE 0)
        moved == [p \in Paths |->
                    IF \E q \in Paths : Twin(q) = p
                    THEN w.fs[CHOOSE q \in Paths : Twin(q) = p]
                    ELSE IF Twin(p) # "" THEN Absent
                    ELSE w.fs[p]]
    IN  Sys(w, "rename", s, e, moved)

(***************************************************************************)
(* fm_io_posix: the tree mover                                             *)
(***************************************************************************)
Ret(w, err) == [w |-> w, err |-> err]

\* fm_io_posix::stat(path, stat)
stat(w, path) == sys_lstat(w, path)

\* copy_stat() with chmod() issued before lchown()
copy_stat_chmod_first(w, target, st) ==
    LET r1 == sys_utimes(w, target, st.mtime)
        r2 == IF st.type # "lnk" THEN sys_chmod(r1.w, target, st.mode) ELSE Ret(r1.w, 0)
    IN  IF r2.err # 0 THEN r2 ELSE sys_lchown(r2.w, target, st.owner)

\* fm_io_posix::copy_stat(target, stat): utimes (a failure is a warning),
\* lchown, then chmod unless the source is a symbolic link
copy_stat(w, target, st) ==
    LET r1 == sys_utimes(w, target, st.mtime)
        r2 == sys_lchown(r1.w, target, st.owner)
    IN  IF r2.err # 0 THEN r2
        ELSE IF st.type # "lnk" THEN sys_chmod(r2.w, target, st.mode)
        ELSE r2

\* fm_io_posix::copy_stream(in_fd, out_fd, source, target): a read() returns
\* what is left of the file and a write() takes all it is given, or fails
copy_stream(w, source, target) ==
    LET r1 == sys_read(w, source)
        buf == w.fs[source].data
    IN  IF r1.err # 0 \/ Len(buf) = 0 THEN r1
        ELSE LET r2 == sys_write(r1.w, target, 0, buf)
             IN  IF r2.err # 0 THEN r2 ELSE sys_read(r2.w, source)

\* fm_io_posix::move_file(source_path, stat, target_path)
move_file(w, source, st, target) ==
    IF w.sim THEN Ret(w, 0)
    ELSE
    LET r_in == sys_open_rd(w, source)
        r_out == sys_open_wr(r_in.w, target, st.mode)
        err1 == IF r_out.err # 0 THEN r_out.err ELSE r_in.err
        r_cp == IF err1 = 0 THEN copy_stream(r_out.w, source, target) ELSE Ret(r_out.w, err1)
        w_c1 == IF r_in.err = 0 THEN sys_close(r_cp.w, source).w ELSE r_cp.w
        w_c2 == IF r_out.err = 0 THEN sys_close(w_c1, target).w ELSE w_c1
    IN  IF r_cp.err # 0 THEN Ret(w_c2, r_cp.err)
        ELSE LET r_st == copy_stat(w_c2, target, st)
             IN  IF r_st.err # 0 THEN r_st ELSE sys_unlink(r_st.w, source)

\* fm_io_posix::move_special(source_path, stat, target_path)
move_special(w, source, st, target) ==
    IF w.sim THEN Ret(w, 0)
    ELSE
    LET made ==
            IF st.type \in {"chr", "blk", "sock"}
            THEN LET r == sys_mknod(w, target, st.type, (st.mode \cup {"urw"}) \ {"go"})
                 IN  IF r.err # 0 /\ st.type # "sock" THEN r ELSE Ret(r.w, 0)
            ELSE IF st.type = "fifo"
            THEN sys_mkfifo(w, target, {"urw"})
            ELSE IF st.type = "lnk"
            THEN LET r == sys_readlink(w, source)
                     link_to == w.fs[source].link
                 IN  IF r.err # 0 THEN r ELSE sys_symlink(r.w, target, link_to)
            ELSE Ret(w, -EOPNOTSUPP)
        done == IF made.err # 0 THEN made ELSE copy_stat(made.w, target, st)
    IN  IF done.err # 0 THEN done ELSE sys_unlink(done.w, source)

\* fm_io_posix::create_dir(path, stat)
create_dir(w, path, st) ==
    IF w.sim THEN Ret(w, 0) ELSE sys_mkdir(w, path, {"urw", "ux"})

\* fm_io_posix::remove_dir(path)
remove_dir(w, path) ==
    IF w.sim THEN Ret(w, 0) ELSE sys_rmdir(w, path)

\* the names source_dir.next() returns, in the order the oracle lists them
DirNames(w, dir, order) == SelectSeq(order, LAMBDA n : n \in Entries(w.fs, dir))

RECURSIVE move(_, _, _)
RECURSIVE move_children(_, _, _, _)

\* the loop over the directory entries without the break of line 141
move_children_no_break(w, source, target, names) ==
    LET r == sys_readdir(w, source)
    IN  IF r.err # 0 \/ names = <<>> THEN r
        ELSE LET m == move(r.w, Child(source, Head(names)), Child(target, Head(names)))
                 n == move_children(m.w, source, target, Tail(names))
             IN  IF n.err # 0 THEN n ELSE Ret(n.w, m.err)

\* lines 128-141: the loop over the directory entries
move_children(w, source, target, names) ==
    LET r == sys_readdir(w, source)
    IN  IF r.err # 0 \/ names = <<>> THEN r
        ELSE LET m == move(r.w, Child(source, Head(names)), Child(target, Head(names)))
             IN  IF m.err # 0 THEN m
                 ELSE move_children(m.w, source, target, Tail(names))

\* fm_io_posix::move(source_path, target_path)
move(w, source, target) ==
    LET r0 == stat(w, source)
        st == w.fs[source]
    IN  IF r0.err # 0 THEN r0
        ELSE IF st.type = "reg" THEN move_file(r0.w, source, st, target)
        ELSE IF st.type # "dir" THEN move_special(r0.w, source, st, target)
        ELSE
        LET r1 == sys_opendir(r0.w, source)
        IN  IF r1.err # 0 THEN r1
            ELSE
            LET r2 == create_dir(r1.w, target, st)
            IN  IF r2.err # 0 THEN r2
                ELSE
                LET r3 == move_children(r2.w, source, target, DirNames(r2.w, source, w.order))
                IN  IF r3.err # 0 THEN r3
                    ELSE
                    LET r4 == copy_stat(r3.w, target, st)
                    IN  IF r4.err # 0 THEN r4 ELSE remove_dir(r4.w, source)

\* fm_io_posix::move_rename(source, target)
move_rename(w, source, target) ==
    IF w.sim THEN Ret(w, EXDEV) ELSE sys_rename(w, source, target)

\* fm_io_posix::move()
move_all(w) ==
    LET r == move_rename(w, source_root, target_root)
    IN  IF r.err = 0 THEN r
        ELSE move(sys_umask(r.w).w, source_root, target_root)

(***************************************************************************)
(* fm_io_posix::copy_stream, one system call at a time                     *)
(***************************************************************************)
\* copy_stream(in_fd, out_fd) on entry: 'input' is what in_fd still holds,
\* 'errno' what the last failed call of the process left (0 when none did)
NewCp(input, errno) ==
    [pc |-> "read",             \* the next system call: "read", "write", or "done"
     input |-> input, in_pos |-> 0,     \* in_fd and its file offset
     buf |-> <<>>, got |-> 0, sent |-> 0,
     out |-> <<>>,              \* the bytes out_fd received
     err |-> 0, errno |-> errno,
     short_read |-> FALSE,      \* a read() returned less than was there
     partial_write |-> FALSE,   \* a write() took less than it was given
     interrupted |-> FALSE,     \* a write() failed with EINTR
     wrote_zero |-> FALSE,      \* a write() returned 0
     failed |-> FALSE]          \* a read() failed, or a write() failed, not with EINTR

\* lines 297-302: read() returned r bytes, or -1 with errno e
cp_read(c, r, e) ==
    IF r < 0 THEN [c EXCEPT !.got = r, !.errno = e, !.err = e, !.failed = TRUE, !.pc = "done"]
    ELSE IF r = 0 THEN [c EXCEPT !.got = 0, !.pc = "done"]
    ELSE [c EXCEPT !.got = r,
                   !.buf = SubSeq(c.input, c.in_pos + 1, c.in_pos + r),
                   !.in_pos = @ + r,
                   !.sent = 0,
                   !.short_read = @ \/ r < ff_min2(COPY_BUF_LEN, Len(c.input) - c.in_pos),
                   !.pc = "write"]

\* lines 306-313: write(out_fd, buf + sent, got - sent) returned r, or -1
\* with errno e. A write() that returns 0 leaves errno as it was, and line
\* 309 takes that errno as the error: when it is 0 the inner loop is left
\* with err == 0 and the outer loop reads on.
cp_write(c, r, e) ==
    IF r < 0 /\ e = EINTR
    THEN [c EXCEPT !.errno = EINTR, !.interrupted = TRUE]
    ELSE IF r < 0
    THEN [c EXCEPT !.errno = e, !.err = e, !.failed = TRUE, !.pc = "done"]
    ELSE IF r = 0
    THEN [c EXCEPT !.err = c.errno, !.wrote_zero = TRUE,
                   !.pc = IF c.errno # 0 THEN "done" ELSE "read"]
    ELSE [c EXCEPT !.out = @ \o SubSeq(c.buf, c.sent + 1, c.sent + r),
                   !.sent = @ + r,
                   !.partial_write = @ \/ r < c.got - c.sent,
                   !.pc = IF c.sent + r < c.got THEN "write" ELSE "read"]

(***************************************************************************)
(* ft_transform: init, init_job, init_io_posix, run, quit, main            *)
(***************************************************************************)
\* (ft_uint)-1
UintMax == Pow2(UintBits) - 1
ToUint(n) == n % Pow2(UintBits)

\* the directory of all jobs, and "%lu" of the job number
TopDir == <<".fstransform">>
DigitChars == <<"0", "1", "2", "3", "4", "5", "6", "7", "8", "9">>
RECURSIVE Decimal(_)
Decimal(n) ==
    IF n < 10 THEN <<DigitChars[n + 1]>> ELSE Decimal(n \div 10) \o <<DigitChars[(n % 10) + 1]>>

\* memcpy(job_dir_, ".fstransform/job.", 17); sprintf(job_dir_ + 17, "%lu/", i)
JobDir(i) == <<".fstransform/job.">> \o Decimal(i) \o <<"/">>
\* job_dir_ == NULL
NullDir == <<>>

\* ff_mkdir(path): mkdir(2) of one directory, refused when it exists, when
\* its parent is missing, or when the system says so
ff_mkdir(dirs, path, refused) ==
    IF path \in dirs THEN [dirs |-> dirs, err |-> EEXIST]
    ELSE IF path # TopDir /\ TopDir \notin dirs THEN [dirs |-> dirs, err |-> ENOENT]
    ELSE IF path \in refused THEN [dirs |-> dirs, err |-> ENOSPC]
    ELSE [dirs |-> dirs \cup {path}, err |-> 0]

\* ft_transform::ft_transform(): job_dir_(NULL), fm_io(NULL)
NewTr ==
    [job_dir |-> NullDir, has_io |-> FALSE, fm_io |-> NewIo(FALSE),
     fresh |-> FALSE,   \* fm_io points to an object allocated by the running call
     dels |-> <<>>]     \* the objects the running call deleted: "new" is the one
                        \* it allocated, "old" the one fm_io pointed to at entry

\* the transformer between two calls: nothing allocated or deleted yet
Entered(t) == [t EXCEPT !.fresh = FALSE, !.dels = <<>>]

\* fm_io != NULL && fm_io->is_open()
is_initialized(t) == t.has_io /\ is_open(t.fm_io)

\* quit(): delete fm_io (its destructor calls close()), fm_io = NULL
quit(t) ==
    IF t.has_io
    THEN [t EXCEPT !.has_io = FALSE, !.fm_io = NewIo(FALSE), !.fresh = FALSE,
                   !.dels = Append(@, IF t.fresh THEN "new" ELSE "old")]
    ELSE t

check_is_closed(t) ==
    IF is_initialized(t) THEN [t |-> t, err |-> EISCONN] ELSE [t |-> quit(t), err |-> 0]

check_is_open(t) ==
    IF ~is_initialized(t) THEN [t |-> quit(t), err |-> ENOTCONN] ELSE [t |-> t, err |-> 0]

\* the loop of init_job starting one number too high
RECURSIVE init_job_loop_skip(_, _, _, _)
init_job_loop_skip(dirs, i, err, refused) ==
    IF i = UintMax THEN [dirs |-> dirs, err |-> err, job_dir |-> JobDir(i)]
    ELSE LET r == ff_mkdir(dirs, JobDir(ToUint(i + 1)), refused)
         IN  IF r.err = 0 THEN [dirs |-> r.dirs, err |-> 0, job_dir |-> JobDir(ToUint(i + 1))]
             ELSE init_job_loop_skip(r.dirs, ToUint(i + 1), r.err, refused)

\* lines 168-176: for (i = 1; i != (ft_uint)-1; i++)
RECURSIVE init_job_loop(_, _, _, _)
init_job_loop(dirs, i, err, refused) ==
    IF i = UintMax
    THEN [dirs |-> dirs, err |-> err,
          job_dir |-> IF i = 1 THEN <<".fstransform/job.">> ELSE JobDir(i - 1)]
    ELSE LET r == ff_mkdir(dirs, JobDir(i), refused)
         IN  IF r.err = 0 THEN [dirs |-> r.dirs, err |-> 0, job_dir |-> JobDir(i)]
             ELSE init_job_loop(r.dirs, ToUint(i + 1), r.err, refused)

\* init_job(): orc.malloc_ok is the result of malloc(), orc.refused the
\* directories the system refuses to create
init_job(t, dirs, orc) ==
    LET top == ff_mkdir(dirs, TopDir, orc.refused)
    IN  IF ~orc.malloc_ok
        THEN [t |-> [t EXCEPT !.job_dir = NullDir], dirs |-> top.dirs, err |-> ENOMEM]
        ELSE LET r == init_job_loop(top.dirs, 1, 0, orc.refused)
             IN  [t |-> [t EXCEPT !.job_dir = IF r.err # 0 THEN NullDir ELSE r.job_dir],
                  dirs |-> r.dirs, err |-> r.err]

\* init_io(io)
init_io(t, w) ==
    LET c == check_is_closed(t)
    IN  IF c.err = 0
        THEN [t |-> [c.t EXCEPT !.has_io = TRUE, !.fm_io = w, !.fresh = TRUE], err |-> 0]
        ELSE c

\* init_io_posix() without the 'delete io_posix' of lines 207-210
init_io_posix_no_delete(t, orc) ==
    LET c == check_is_closed(t)
    IN  IF c.err # 0 THEN [t |-> c.t, err |-> c.err, opened |-> FALSE, open_err |-> 0]
        ELSE CHOOSE ret \in
                 {IF r.err # 0
                  THEN [t |-> c.t, err |-> r.err, opened |-> TRUE, open_err |-> r.err]
                  ELSE CHOOSE ret2 \in
                           {[t |-> i.t, err |-> i.err, opened |-> TRUE, open_err |-> 0] :
                            i \in {init_io(c.t, r.w)}} : TRUE :
                  r \in {open(NewIo(orc.fallocate), orc.open)}} : TRUE

\* init_io_posix(path): 'opened' tells whether io_posix->open() was called,
\* 'open_err' what it returned. The object allocated at line 199 is deleted
\* at lines 207-210 when open() or init_io() failed.
\* (x \in {call} binds the result of a call once, as a local variable does.)
init_io_posix(t, orc) ==
    LET c == check_is_closed(t)
    IN  IF c.err # 0 THEN [t |-> c.t, err |-> c.err, opened |-> FALSE, open_err |-> 0]
        ELSE CHOOSE ret \in
                 {IF r.err # 0
                  THEN [t |-> [c.t EXCEPT !.dels = Append(@, "new")],
                        err |-> r.err, opened |-> TRUE, open_err |-> r.err]
                  ELSE CHOOSE ret2 \in
                           {[t |-> IF i.err # 0 THEN [i.t EXCEPT !.dels = Append(@, "new")]
                                   ELSE i.t,
                             err |-> i.err, opened |-> TRUE, open_err |-> 0] :
                            i \in {init_io(c.t, r.w)}} : TRUE :
                  r \in {open(NewIo(orc.fallocate), orc.open)}} : TRUE

\* what invalid_cmdline() prints for an argument count
Missing(argc) ==
    IF argc <= 1 THEN "missing arguments: device loop-file zero-file"
    ELSE IF argc <= 2 THEN "missing arguments: loop-file zero-file"
    ELSE "missing argument: zero-file"

\* init(argc, argv): the result, the directories on disk, what went to stderr
init(t, dirs, argc, orc) ==
    LET c == check_is_closed(t)
        nothing == [t |-> c.t, dirs |-> dirs, err |-> c.err, stderr |-> <<>>,
                    opened |-> FALSE, open_err |-> 0, job_called |-> FALSE, job_err |-> 0]
    IN  IF c.err # 0 THEN nothing
        ELSE IF argc <= 1 \/ argc <= 2 \/ argc <= 3
        THEN [nothing EXCEPT !.err = 1, !.stderr = <<Missing(argc), "Try --help">>]
        ELSE CHOOSE ret \in
                 {IF j.err # 0
                  THEN [nothing EXCEPT !.t = j.t, !.dirs = j.dirs, !.err = j.err,
                                       !.job_called = TRUE, !.job_err = j.err]
                  ELSE CHOOSE ret2 \in
                           {[t |-> p.t, dirs |-> j.dirs, err |-> p.err, stderr |-> <<>>,
                             opened |-> p.opened, open_err |-> p.open_err,
                             job_called |-> TRUE, job_err |-> 0] :
                            p \in {init_io_posix(j.t, orc)}} : TRUE :
                  j \in {init_job(c.t, dirs, orc)}} : TRUE

\* the calls run() makes on the I/O object and the dispatcher, in order
RunCalls == <<"read_extents", "write_extents", "dispatch">>

\* run() that dispatches the work although write_extents() failed
run_dispatch_unsaved(t, orc) ==
    CHOOSE ret \in
        {IF c.err # 0 THEN [t |-> c.t, err |-> c.err, calls |-> <<>>, saved |-> NullDir]
         ELSE CHOOSE ret2 \in
                  {IF r.err # 0
                   THEN [t |-> c.t, err |-> r.err, calls |-> SubSeq(RunCalls, 1, 1),
                         saved |-> NullDir]
                   ELSE [t |-> c.t, err |-> orc.work_err, calls |-> RunCalls,
                         saved |-> IF orc.write_err # 0 THEN NullDir ELSE c.t.job_dir] :
                   r \in {read_extents(c.t.fm_io, NoExt, orc.read)}} : TRUE :
         c \in {check_is_open(t)}} : TRUE

\* run(): check_is_open(), io.read_extents(), io.write_extents(..., job_dir_)
\* and ft_work_dispatch::main(). write_extents() and the dispatcher are taken
\* by their results orc.write_err and orc.work_err; 'calls' lists the calls
\* made, 'saved' the directory the extents were saved under.
run(t, orc) ==
    CHOOSE ret \in
        {IF c.err # 0 THEN [t |-> c.t, err |-> c.err, calls |-> <<>>, saved |-> NullDir]
         ELSE CHOOSE ret2 \in
                  {IF r.err # 0
                   THEN [t |-> c.t, err |-> r.err, calls |-> SubSeq(RunCalls, 1, 1),
                         saved |-> NullDir]
                   ELSE IF orc.write_err # 0
                   THEN [t |-> c.t, err |-> orc.write_err, calls |-> SubSeq(RunCalls, 1, 2),
                         saved |-> NullDir]
                   ELSE [t |-> c.t, err |-> orc.work_err, calls |-> RunCalls,
                         saved |-> c.t.job_dir] :
                   r \in {read_extents(c.t.fm_io, NoExt, orc.read)}} : TRUE :
         c \in {check_is_open(t)}} : TRUE

\* main(argc, argv) on a transformer of its own, which is destroyed on return
main(dirs, argv, orc) ==
    LET argc == Len(argv)
    IN  IF argc = 2 /\ argv[2] = "--help"
        THEN [dirs |-> dirs, err |-> 0, stdout |-> <<"Usage: device loop-file zero-file">>,
              stderr |-> <<>>, opened |-> FALSE, job_called |-> FALSE, job_err |-> 0,
              job_dir |-> NullDir, init_err |-> 0]
        ELSE CHOOSE ret \in
                 {[dirs |-> i.dirs,
                   err |-> IF i.err = 0 THEN run(i.t, orc).err ELSE i.err,
                   stdout |-> <<>>, stderr |-> i.stderr, opened |-> i.opened,
                   job_called |-> i.job_called, job_err |-> i.job_err,
                   job_dir |-> i.t.job_dir, init_err |-> i.err] :
                  i \in {init(NewTr, dirs, argc, orc)}} : TRUE

(***************************************************************************)
(* ff_zero_loop_file_holes                                                 *)
(***************************************************************************)
\* x >> n and x << n of an ft_uoff
ShiftRight(x, n) == x \div Pow2(n)
ShiftLeft(x, n) == ToUoff(x * Pow2(n))

\* whether block b lies inside the logical range of an extent, in blocks
BlockCovered(es, log2, b) ==
    \E k \in DOMAIN es :
        /\ ShiftRight(es[k].logical, log2) <= b
        /\ b < ShiftRight(es[k].logical, log2) + ShiftRight(es[k].length, log2)

\* the maximal runs of blocks of [from, total) no extent covers, in ascending order
RECURSIVE HoleRuns(_, _, _, _)
HoleRuns(es, log2, from, total) ==
    IF from >= total THEN <<>>
    ELSE IF BlockCovered(es, log2, from) THEN HoleRuns(es, log2, from + 1, total)
    ELSE LET stop == CHOOSE e \in (from + 1)..total :
                         /\ \A b \in from..(e - 1) : ~BlockCovered(es, log2, b)
                         /\ (e = total \/ BlockCovered(es, log2, e))
         IN  <<[physical |-> from, logical |-> from, length |-> stop - from]>>
                 \o HoleRuns(es, log2, stop, total)

\* fr_map::complement0_logical_shift(input, block_size_log2, total_length)
complement0_logical_shift(es, log2, total_length) ==
    HoleRuns(es, log2, 0, ShiftRight(total_length, log2))

\* the locals of a run before its first statement: the arguments name a device
\* of dev_len bytes, none of them zero, and a save-file holding the extents es
\* and the bitmask
NewZh(dev_len, es, bitmask) ==
    [pc |-> "start",
     file_len |-> dev_len,                      \* the device
     dev |-> [b \in 1..dev_len |-> 1],          \* its bytes; dev[b + 1] is byte b
     file_extents |-> es,                       \* the save-file
     file_bitmask |-> bitmask,
     dev_len |-> 0, loop_extents |-> <<>>, block_size_bitmask |-> 0,
     eff_block_size_log2 |-> 0,
     loop_holes_map |-> <<>>, iter |-> 1,
     offset |-> 0, left |-> 0,
     pos |-> 0,                                 \* file offset of dev_fd
     written |-> {},                            \* the bytes write() stored into
     write_failed |-> FALSE,                    \* an ff_posix_write() returned an error
     seek_failed |-> FALSE,                     \* an ff_posix_lseek() returned an error
     ctz_done |-> FALSE,                        \* the loop of lines 61-66 was left
     err |-> 0]

\* lines 39-59: open the device, read its length, load the save-file
zh_load(z, fail) ==
    IF fail # "none" THEN [z EXCEPT !.err = EIO, !.pc = "done"]
    ELSE [z EXCEPT !.dev_len = z.file_len,
                   !.loop_extents = z.file_extents,
                   !.block_size_bitmask = z.file_bitmask,
                   !.err = 0,
                   !.pc = "ctz"]

\* the for loop of line 79 reaches its test with iterator k
zh_for(z, k) ==
    IF k > Len(z.loop_holes_map) THEN [z EXCEPT !.iter = k, !.pc = "done"]
    ELSE [z EXCEPT !.iter = k, !.pc = "seek"]

\* lines 69-76: the holes of the loop file
zh_holes(z) ==
    zh_for([z EXCEPT !.loop_holes_map =
                complement0_logical_shift(z.loop_extents, z.eff_block_size_log2, z.dev_len),
                     !.ctz_done = TRUE],
           1)

\* the loop of lines 61-66 without the test of line 61
zh_ctz_untested(z) ==
    IF z.block_size_bitmask % 2 = 0
    THEN [z EXCEPT !.eff_block_size_log2 = ToUoff(@ + 1),
                   !.block_size_bitmask = ShiftRight(@, 1)]
    ELSE zh_holes(z)

\* lines 61-66, one test of the while loop and, when it holds, one round
zh_ctz(z) ==
    IF z.block_size_bitmask # 0 /\ z.block_size_bitmask % 2 = 0
    THEN [z EXCEPT !.eff_block_size_log2 = ToUoff(@ + 1),
                   !.block_size_bitmask = ShiftRight(@, 1)]
    ELSE zh_holes(z)

\* lines 80-86: offset, left and ff_posix_lseek() of one hole
zh_seek(z, ok) ==
    LET extent == z.loop_holes_map[z.iter]
        offset == ShiftLeft(extent.physical, z.eff_block_size_log2)
        left == ShiftLeft(extent.length, z.eff_block_size_log2)
        d == [z EXCEPT !.offset = offset, !.left = left]
    IN  IF ~ok THEN [d EXCEPT !.err = EIO, !.seek_failed = TRUE, !.pc = "done"]
        ELSE IF left # 0 THEN [d EXCEPT !.err = 0, !.pos = offset, !.pc = "write"]
        ELSE zh_for([d EXCEPT !.err = 0, !.pos = offset], z.iter + 1)

\* the bytes [pos, pos + n) of the device overwritten with zeros
ZeroBytes(z, n) ==
    [z EXCEPT !.dev = [b \in DOMAIN @ |-> IF b > z.pos /\ b <= z.pos + n THEN 0 ELSE @[b]],
              !.written = @ \cup {b \in z.pos..(z.pos + n - 1) : b < z.file_len},
              !.pos = @ + n]

\* lines 87-95, one round: ff_posix_write() stores the whole chunk (n = chunk)
\* or fails after n < chunk bytes; the break of line 92 leaves the while loop
zh_write(z, n) ==
    LET chunk == ff_min2(z.left, ZERO_BUF_LEN)
        d == ZeroBytes(z, n)
    IN  IF n < chunk
        THEN zh_for([d EXCEPT !.err = EIO, !.write_failed = TRUE], z.iter + 1)
        ELSE IF z.left - chunk # 0
        THEN [d EXCEPT !.err = 0, !.left = @ - chunk]
        ELSE zh_for([d EXCEPT !.err = 0, !.left = @ - chunk], z.iter + 1)

(***************************************************************************)
(* The ft_io_posix state machines                                          *)
(***************************************************************************)
NoCs == [CsState(NewIo(FALSE), 0, 0) EXCEPT !.w = 0]

Call(op, err, orc, cs) == [op |-> op, err |-> err, orc |-> orc, cs |-> [cs EXCEPT !.w = 0]]

\* extents the planner may hand over: inside the device, pairwise disjoint
DevExtents(dev_len) ==
    {[physical |-> p, logical |-> p, length |-> n, user_data |-> 0] :
        p \in 0..(dev_len - 1), n \in 1..dev_len}

Disjoint(a, b) ==
    a.physical + a.length <= b.physical \/ b.physical + b.length <= a.physical

\* the planner sorts its extents by descending length, then ascending offset
Sorted(es) ==
    \A k \in DOMAIN es : \A m \in DOMAIN es :
        k < m => \/ es[k].length > es[m].length
                 \/ es[k].length = es[m].length /\ es[k].physical < es[m].physical

ExtentSeqs(dev_len) ==
    {es \in UNION {[1..n -> DevExtents(dev_len)] : n \in 0..MaxExtents} :
        /\ \A k \in DOMAIN es : es[k].physical + es[k].length <= dev_len
        /\ \A k, m \in DOMAIN es : k # m => Disjoint(es[k], es[m])
        /\ Sorted(es)}

SecondaryLens == (0..MaxSecLen) \cup {OffMax + 1, UoffMod - 1}

FailPoints ==
    {<<"none", 0>>, <<"size", 0>>}
        \cup {<<"open", i>> : i \in 0..(FC_FILE_COUNT - 1)}
        \cup {<<"dev", i>> : i \in 0..(FC_FILE_COUNT - 1)}

\* dev_t of the device and of the file systems holding LOOP-FILE and ZERO-FILE
DevTs == {dev \in [0..(FC_FILE_COUNT - 1) -> DevIds] : dev[FC_DEVICE] = 1}

\* values an out-of-bounds read of fd[] may find: negative, or not
UbValues == {-1, 0}

RepKinds == {"munmap", "mmap", "moved"}
RepSet(n) ==
    {[k |-> 0, kind |-> "ok"]} \cup {[k |-> i, kind |-> x] : i \in 1..n, x \in RepKinds}

\* what the history keeps of an oracle: the failing step and the dev_t values
Seen(orc) == [NoOrc EXCEPT !.fail_step = orc.fail_step, !.fail_i = orc.fail_i, !.dev = orc.dev]

MunmapResults(w) == IF w.storage_mmap # MAP_FAILED THEN BOOLEAN ELSE {TRUE}

\* no call of the tree mover was made yet
NoMvCall ==
    [op |-> "none", err |-> 0, log |-> <<>>, fs0 |-> <<>>, fault |-> NoFault,
     xdev |-> TRUE, order |-> <<>>, target |-> "", st |-> Absent]

\* no tree mover runs
MvIdle ==
    /\ fs = [p \in Paths |-> Absent]
    /\ mv_sim = FALSE
    /\ mv_call = NoMvCall
    /\ cp = NewCp(<<>>, 0)

\* no call of ft_transform was made yet
NoTrCall ==
    [op |-> "none", argv |-> <<>>, err |-> 0, dirs0 |-> {}, stdout |-> <<>>,
     stderr |-> <<>>, opened |-> FALSE, job_called |-> FALSE, job_err |-> 0,
     job_dir |-> NullDir, init_err |-> 0, malloc_ok |-> TRUE, refused |-> {},
     calls |-> <<>>, saved |-> NullDir,     \* of run(): see there
     was_open |-> FALSE,                    \* is_initialized() when run() was called
     had_io |-> FALSE,                      \* fm_io != NULL when the call was made
     dels |-> <<>>, open_err |-> 0,         \* of init() and quit(): see init_io_posix
     read_err |-> 0, write_err |-> 0, work_err |-> 0]   \* results run() was given

\* no ft_transform runs
TrIdle ==
    /\ tr = [obj |-> NewTr, dirs |-> {}]
    /\ tr_call = NoTrCall

\* no hole zeroer runs
ZhIdle == zh = NewZh(0, <<>>, 0)

\* no ft_io_posix object is used
IoIdle ==
    /\ io = NewIo(FALSE)
    /\ io_pc = "idle"
    /\ fill = NoCs
    /\ io_call = Call("new", 0, NoOrc, NoCs)
    /\ ext = NoExt

IoInit ==
    /\ io \in {NewIo(f) : f \in BOOLEAN}
    /\ io_pc = "idle"
    /\ fill = NoCs
    /\ io_call = Call("new", 0, NoOrc, NoCs)
    /\ ext = NoExt
    /\ MvIdle
    /\ TrIdle
    /\ ZhIdle

\* whether an open() with these results fails, and the device sizes worth
\* telling apart (a failed open() forgets the size)
OpenFails(fp, dev) == fp[1] # "none" \/ \E i \in DOMAIN dev : dev[i] # dev[FC_DEVICE]
OpenSizes(fp, dev) == IF OpenFails(fp, dev) THEN {1} ELSE 0..MaxDevLen
\* the dev_t values worth telling apart: a mismatch fails the open() by
\* itself, whatever else would have failed after it
OpenDevs(fp) == IF fp[1] = "none" THEN DevTs ELSE {NoOrc.dev}

\* ft_io_posix::open(path)
Open ==
    /\ io_pc = "idle"
    /\ Cardinality(io.os_open) + FC_FILE_COUNT <= MaxOpenFds
    /\ IF is_open(io)
       THEN /\ io' = open(io, NoOrc).w
            /\ io_call' = Call("open", open(io, NoOrc).err, NoOrc, NoCs)
       ELSE \E fp \in FailPoints : \E dev \in OpenDevs(fp) :
               \E size \in OpenSizes(fp, dev), munmap_ok \in MunmapResults(io),
                  ub \in (IF OpenFails(fp, dev) THEN UbValues ELSE {-1}) :
                   LET orc == OpenOrc(fp[1], fp[2], dev, size, munmap_ok, ub)
                       r == open(io, orc)
                   IN  /\ io' = r.w
                       /\ io_call' = Call("open", r.err, Seen(orc), NoCs)
    /\ UNCHANGED <<io_pc, fill, ext, mv_vars, tr_vars, zh_vars>>

\* ft_io_posix::close()
Close ==
    /\ io_pc # "fill"
    /\ \E munmap_ok \in MunmapResults(io), ub \in UbValues :
          /\ io' = close(io, munmap_ok, ub)
          /\ io_call' = Call("close", 0, NoOrc, NoCs)
    /\ UNCHANGED <<io_pc, fill, ext, mv_vars, tr_vars, zh_vars>>

\* ft_io_posix::close_extents()
CloseExtents ==
    /\ io_pc = "idle"
    /\ io' = close_extents(io)
    /\ io_call' = Call("close_extents", 0, NoOrc, NoCs)
    /\ UNCHANGED <<io_pc, fill, ext, mv_vars, tr_vars, zh_vars>>

\* the planner fills primary_storage() with free extents of the open device
AnalyzeStorage ==
    /\ io_pc = "idle"
    /\ is_open(io)
    /\ io.storage_mmap = MAP_FAILED
    /\ ~is_open0(io, FC_SECONDARY_STORAGE)
    /\ \E es \in ExtentSeqs(io.dev_len) :
          io' = [io EXCEPT !.primary_storage = es]
    /\ io_call' = Call("analyze", 0, NoOrc, NoCs)
    /\ UNCHANGED <<io_pc, fill, ext, mv_vars, tr_vars, zh_vars>>

\* what the system may report for the extents of a file on the device
ProbeExtents(dev_len) ==
    {<<>>} \cup {<<e>> : e \in {x \in DevExtents(dev_len) : x.physical + x.length <= dev_len}}
ProbeResults(dev_len) ==
    {[err |-> EIO, extents |-> <<>>]}
        \cup {[err |-> 0, extents |-> es] : es \in ProbeExtents(dev_len)}
NoProbe == [err |-> 0, extents |-> <<>>]

\* the results read_extents() can tell apart on this object
ReadOrcs(w) ==
    {[loop |-> l, zero |-> z] :
        l \in (IF is_open_extents(w) /\ is_open0(w, FC_LOOP_FILE)
                THEN ProbeResults(w.dev_len) ELSE {NoProbe}),
        z \in (IF is_open_extents(w) /\ is_open0(w, FC_ZERO_FILE)
                THEN ProbeResults(w.dev_len) ELSE {NoProbe})}

\* a completed read_extents(): the vectors before the call and the number of
\* ff_read_extents_posix() calls it made
ReadCall(err, e0, asked) ==
    [op |-> "read_extents", err |-> err, orc |-> NoOrc, cs |-> NoCs,
     ext0 |-> e0, asked |-> asked]

\* ft_io_posix::read_extents(loop_file_extents, free_space_extents, bitmask)
ReadExtents ==
    /\ io_pc = "idle"
    /\ Len(ext.loop_file_extents) < MaxReads
    /\ Len(ext.free_space_extents) < MaxReads
    /\ \E orc \in ReadOrcs(io) :
          LET r == read_extents(io, ext, orc)
          IN  /\ ext' = r.ext
              /\ io_call' = ReadCall(r.err, ext, r.asked)
    /\ UNCHANGED <<io, io_pc, fill, mv_vars, tr_vars, zh_vars>>

\* open, close, close_extents and the planner on a new object
OpenNext ==
    \/ Open
    \/ Close
    \/ CloseExtents
    \/ AnalyzeStorage

SpecOpen == IoInit /\ [][OpenNext]_vars

\* open, read_extents, close_extents and close on a new object
ExtentsNext ==
    \/ Open
    \/ ReadExtents
    \/ CloseExtents
    \/ Close

SpecExtents == IoInit /\ [][ExtentsNext]_vars

\* the caller's bitmask before its first read_extents(): no bit, a bit the
\* extents can have, and one above every offset of the device
CallerMasks == {0, 1, MaxDevLen + 1}

\* read_extents() on its own: the object is new, or open on a device, with
\* its extents still open or closed already; the caller passes a bitmask
ReadInit ==
    /\ io \in {NewIo(FALSE)}
              \cup UNION {{o, close_extents(o)} :
                          o \in {open(NewIo(FALSE), [NoOrc EXCEPT !.size = size]).w :
                                     size \in 1..MaxDevLen}}
    /\ io_pc = "idle"
    /\ fill = NoCs
    /\ io_call = Call("new", 0, NoOrc, NoCs)
    /\ ext \in {[NoExt EXCEPT !.block_size_bitmask = b] : b \in CallerMasks}
    /\ MvIdle
    /\ TrIdle
    /\ ZhIdle

ReadNext ==
    \/ ReadExtents
    \/ CloseExtents

SpecRead == ReadInit /\ [][ReadNext]_vars

\* create_storage() returns: c is the finished call
CsReturn(c) ==
    /\ UNCHANGED <<ext, mv_vars, tr_vars, zh_vars>>
    /\ io' = c.w
    /\ io_pc' = "ran"
    /\ fill' = NoCs
    /\ io_call' = Call("create_storage", c.err, NoOrc, c)

\* the rest of the call, with the results of the system calls still to come
CsRest(c) ==
    \E rep \in RepSet(IF c.err = 0 THEN Len(c.w.primary_storage) + 1 ELSE 0),
       unlink_ok \in (IF c.err # 0 /\ is_open0(c.w, FC_SECONDARY_STORAGE) THEN BOOLEAN ELSE {TRUE}),
       munmap_ok \in MunmapResults(c.w),
       ub \in UbValues :
        CsReturn(create_storage_rest(c, rep, unlink_ok, munmap_ok, ub))

\* ft_io_posix::create_storage(secondary_len), up to its return or to the
\* first write() of the zero-fill loop
CreateStorage ==
    /\ io_pc = "idle"
    /\ \E secondary_len \in SecondaryLens, fail \in {"none", "mmap", "sec_open", "falloc"} :
          LET c == create_storage_begin(io, secondary_len, fail)
          IN  IF c.stage = "fill"
              THEN \E buf \in [1..zero_len -> Bytes] :
                      /\ io' = c.w
                      /\ io_pc' = "fill"
                      /\ fill' = [c EXCEPT !.buf = buf]
                      /\ UNCHANGED <<io_call, ext, mv_vars, tr_vars, zh_vars>>
              ELSE CsRest(c)

\* a write() of the zero-fill loop returns (after the retries of line 555);
\* when the loop ends the call runs to its return
FillWrite ==
    /\ io_pc = "fill"
    /\ \E r \in (-1)..ff_min2(zero_len, fill.mem_len - fill.pos), stale \in {0, EIO} :
          /\ (r # 0 => stale = 0)
          /\ LET c == fill_write(fill, r, stale)
             IN  IF c.stage = "fill"
                 THEN /\ io' = c.w
                      /\ fill' = c
                      /\ UNCHANGED <<io_pc, io_call, ext, mv_vars, tr_vars, zh_vars>>
                 ELSE CsRest(c)

\* the object when the job calls create_storage(), once: new, or opened, its
\* extents read and closed (close_extents()) and its primary storage chosen
OpenedIo(f, size, es) ==
    [close_extents(open(NewIo(f), [NoOrc EXCEPT !.size = size]).w)
        EXCEPT !.primary_storage = es]

StorageInit ==
    /\ io \in {NewIo(f) : f \in BOOLEAN}
              \cup UNION {{OpenedIo(f, size, es) : f \in BOOLEAN, es \in ExtentSeqs(size)} :
                          size \in 1..MaxDevLen}
    /\ io_pc = "idle"
    /\ fill = NoCs
    /\ io_call = Call("new", 0, NoOrc, NoCs)
    /\ ext = NoExt
    /\ MvIdle
    /\ TrIdle
    /\ ZhIdle

\* ft_io_posix::close_storage()
CloseStorage ==
    /\ io_pc # "fill"
    /\ \E munmap_ok \in MunmapResults(io), ub \in UbValues :
          /\ io' = close_storage(io, munmap_ok, ub)
          /\ io_call' = Call("close_storage", 0, NoOrc, NoCs)
    /\ UNCHANGED <<io_pc, fill, ext, mv_vars, tr_vars, zh_vars>>

\* create_storage(), close_storage() and close() on an object that was opened
StorageNext ==
    \/ CreateStorage
    \/ FillWrite
    \/ CloseStorage
    \/ Close

SpecStorage == StorageInit /\ [][StorageNext]_vars

(***************************************************************************)
(* The tree mover state machine                                            *)
(***************************************************************************)
FileData == UNION {[1..n -> Bytes] : n \in 0..MaxFileLen}
\* contents of a file found at the target before the move
PreData == {<<>>, [k \in 1..(MaxFileLen + 1) |-> 0]}

SrcModes == {{"urw", "go"}, {"suid", "urw", "ux"}}
\* mode, owner and time stamp of the entries of the source tree
SrcAttrs == {[mode |-> m, owner |-> 1, mtime |-> t] : m \in SrcModes, t \in 1..MaxTime}
\* mode, owner and time stamp of what is at the target before the move
PreAttr == [mode |-> {"urw"}, owner |-> 0, mtime |-> 0]
\* what a source symbolic link may hold
LinkTexts == {"x", "t", "t/a"}

Node(type, attr, data, link, ino) ==
    [type |-> type, data |-> data, mode |-> attr.mode, owner |-> attr.owner,
     mtime |-> attr.mtime, link |-> link, ino |-> ino]

SrcLeaves(attr, ino) ==
    {Node("reg", attr, d, "", ino) : d \in FileData}
        \cup {Node("lnk", [attr EXCEPT !.mode = ModeBits], <<>>, l, ino) : l \in LinkTexts}
        \cup {Node(ty, attr, <<>>, "", ino) : ty \in {"fifo", "chr", "blk", "sock", "unk"}}

\* the source trees: one entry of any type, or a directory of at most two
\* entries, which may be two names of one regular file
SrcTrees ==
    UNION {
        {[p \in {"s", "s/a", "s/b"} |-> IF p = "s" THEN n ELSE Absent] : n \in SrcLeaves(attr, 1)}
        \cup
        {[p \in {"s", "s/a", "s/b"} |->
            IF p = "s" THEN Node("dir", attr, <<>>, "", 1) ELSE IF p = "s/a" THEN a ELSE b] :
            a \in {Absent, Node("dir", attr, <<>>, "", 2)} \cup SrcLeaves(attr, 2),
            b \in {Absent, Node("dir", attr, <<>>, "", 3)} \cup SrcLeaves(attr, 3)
                    \cup {Node("reg", attr, d, "", 2) : d \in FileData}}
        : attr \in SrcAttrs}

\* two names of one inode hold the same file
SameInodeSameFile(tree) ==
    tree["s/a"].ino = tree["s/b"].ino /\ tree["s/a"].ino # 0 => tree["s/a"] = tree["s/b"]

\* what is at the target before the move: nothing, a file, a directory that
\* is empty or holds a file
TgtStates ==
    {[p \in {"t", "t/a"} |-> Absent]}
        \cup {[p \in {"t", "t/a"} |->
                 IF p = "t" THEN Node("reg", PreAttr, d, "", 4) ELSE Absent] : d \in PreData}
        \cup {[p \in {"t", "t/a"} |->
                 IF p = "t" THEN Node("dir", PreAttr, <<>>, "", 4) ELSE a] :
                 a \in {Absent} \cup {Node("reg", PreAttr, d, "", 5) : d \in PreData}}

InitialFs ==
    {[p \in Paths |->
        IF p \in DOMAIN src THEN src[p] ELSE IF p \in DOMAIN tgt THEN tgt[p] ELSE Absent] :
        src \in {tree \in SrcTrees : SameInodeSameFile(tree)}, tgt \in TgtStates}

MvInit ==
    /\ fs \in InitialFs
    /\ mv_sim \in BOOLEAN
    /\ mv_call = NoMvCall
    /\ cp = NewCp(<<>>, 0)
    /\ IoIdle
    /\ TrIdle
    /\ ZhIdle

\* the orders readdir() may list the entries of the source root in
Orders(f) ==
    IF Entries(f, source_root) = Names /\ f[source_root].type = "dir"
    THEN {<<"a", "b">>, <<"b", "a">>}
    ELSE {<<"a", "b">>}

\* the system calls of a run, each of which the system may refuse instead
Refusable(log) ==
    {<<log[k][1], log[k][2]>> : k \in {i \in DOMAIN log : log[i][3] = 0 /\ log[i][1] # "umask"}}

\* fm_io_posix::move() on the whole tree
Move ==
    /\ mv_call.op = "none"
    /\ \E xdev \in (IF mv_sim THEN {TRUE} ELSE BOOLEAN), order \in Orders(fs) :
          LET w0 == World(fs, mv_sim, NoFault, xdev, order)
              clean == move_all(w0)
          IN  \E fault \in {NoFault} \cup Refusable(clean.w.log) :
                 LET r == IF fault = NoFault THEN clean
                          ELSE move_all([w0 EXCEPT !.fault = fault])
                 IN  /\ fs' = r.w.fs
                     /\ mv_call' = [op |-> "move", err |-> r.err, log |-> r.w.log,
                                    fs0 |-> fs, fault |-> fault, xdev |-> xdev,
                                    order |-> order, target |-> "", st |-> Absent]
    /\ UNCHANGED <<mv_sim, cp, io_vars, tr_vars, zh_vars>>

\* fm_io_posix::copy_stat(target_root, stat of source_root), called on its own
CopyStat ==
    /\ mv_call.op = "none"
    /\ Exists(fs, source_root)
    /\ LET w0 == World(fs, mv_sim, NoFault, TRUE, <<>>)
           st == fs[source_root]
           clean == copy_stat(w0, target_root, st)
       IN  \E fault \in {NoFault} \cup Refusable(clean.w.log) :
              LET r == IF fault = NoFault THEN clean
                       ELSE copy_stat([w0 EXCEPT !.fault = fault], target_root, st)
              IN  /\ fs' = r.w.fs
                  /\ mv_call' = [NoMvCall EXCEPT !.op = "copy_stat", !.err = r.err,
                                                 !.log = r.w.log, !.fs0 = fs,
                                                 !.fault = fault, !.target = target_root,
                                                 !.st = st]
    /\ UNCHANGED <<mv_sim, cp, io_vars, tr_vars, zh_vars>>

MoveNext ==
    \/ Move
    \/ CopyStat

SpecMove == MvInit /\ [][MoveNext]_vars

(***************************************************************************)
(* The copy_stream state machine                                           *)
(***************************************************************************)
\* the streams copy_stream() is given
CopyInputs == UNION {[1..n -> Bytes] : n \in 0..MaxCopyLen}

\* errno on entry: 0, or what the rename() that failed before left
EntryErrnos == {0, EXDEV}

CpInit ==
    /\ cp \in {NewCp(input, e) : input \in CopyInputs, e \in EntryErrnos}
    /\ fs = [p \in Paths |-> Absent]
    /\ mv_sim = FALSE
    /\ mv_call = NoMvCall
    /\ IoIdle
    /\ TrIdle
    /\ ZhIdle

\* read(in_fd, buf, sizeof(buf)) returns: all that is left or less, but 0
\* only at the end of the stream, or an error
CpRead ==
    /\ cp.pc = "read"
    /\ LET left == Len(cp.input) - cp.in_pos
       IN  \E r \in {-1} \cup (IF left = 0 THEN {0} ELSE 1..ff_min2(COPY_BUF_LEN, left)),
              e \in {EIO, EINTR} :
              /\ (r >= 0 => e = EIO)
              /\ cp' = cp_read(cp, r, e)
    /\ UNCHANGED <<fs, mv_sim, mv_call, io_vars, tr_vars, zh_vars>>

\* write(out_fd, buf + sent, got - sent) returns
CpWrite ==
    /\ cp.pc = "write"
    /\ \E r \in (-1)..(cp.got - cp.sent), e \in {EIO, EINTR} :
          /\ (r >= 0 => e = EIO)
          /\ cp' = cp_write(cp, r, e)
    /\ UNCHANGED <<fs, mv_sim, mv_call, io_vars, tr_vars, zh_vars>>

CopyNext ==
    \/ CpRead
    \/ CpWrite

SpecCopy == CpInit /\ [][CopyNext]_vars

(***************************************************************************)
(* The ft_transform state machine                                          *)
(***************************************************************************)
JobIds == 1..(UintMax - 1)
AllJobDirs == {JobDir(i) : i \in JobIds}

\* the directories found on disk when the program starts
DiskStates == {{}} \cup {{TopDir} \cup jobs : jobs \in SUBSET AllJobDirs}

\* the command lines: argv[0] is the program name
ArgWords == {"--help", "path"}
Argvs == UNION {{<<"prog">> \o a : a \in [1..n -> ArgWords]} : n \in 0..MaxArgs}

\* results of the system calls of init() and run() in main(): the work after
\* read_extents() is taken as one result, work_err; at most one directory is
\* refused, the device is empty or not, open() fails at ZERO-FILE or not
TrOrcs(argc) ==
    IF argc <= FC_FILE_COUNT
    THEN {[malloc_ok |-> TRUE, refused |-> {}, fallocate |-> FALSE, open |-> NoOrc,
           read |-> [loop |-> NoProbe, zero |-> NoProbe], write_err |-> 0, work_err |-> 0]}
    ELSE {[malloc_ok |-> m, refused |-> r, fallocate |-> FALSE, open |-> o,
           read |-> [loop |-> NoProbe, zero |-> NoProbe],
           write_err |-> 0, work_err |-> e] :
              m \in BOOLEAN,
              r \in {{}} \cup {{d} : d \in {TopDir} \cup AllJobDirs},
              o \in {[NoOrc EXCEPT !.size = 1], NoOrc,
                     [NoOrc EXCEPT !.fail_step = "open", !.fail_i = FC_ZERO_FILE]},
              e \in {0, EIO}}

TrInit ==
    /\ tr \in {[obj |-> NewTr, dirs |-> d] : d \in DiskStates}
    /\ tr_call = NoTrCall
    /\ IoIdle
    /\ MvIdle
    /\ ZhIdle

\* ft_transform::main(argc, argv): one run of the program
TrMain ==
    /\ tr_call.op = "none"
    /\ \E argv \in Argvs : \E orc \in TrOrcs(Len(argv)) :
          \E r \in {main(tr.dirs, argv, orc)} :
              /\ tr' = [tr EXCEPT !.dirs = r.dirs]
              /\ tr_call' = [op |-> "main", argv |-> argv, err |-> r.err,
                             dirs0 |-> tr.dirs, stdout |-> r.stdout, stderr |-> r.stderr,
                             opened |-> r.opened, job_called |-> r.job_called,
                             job_err |-> r.job_err, job_dir |-> r.job_dir,
                             init_err |-> r.init_err,
                             malloc_ok |-> orc.malloc_ok, refused |-> orc.refused]
    /\ UNCHANGED <<io_vars, mv_vars, zh_vars>>

\* ft_transform::init(argc, argv) on the transformer object
TrInitCall ==
    /\ tr_call.op # "main"
    /\ \E argv \in {a \in Argvs : \A k \in 2..Len(a) : a[k] = "path"} :
       \E orc \in TrOrcs(Len(argv)) :
          \E r \in {init(tr.obj, tr.dirs, Len(argv), orc)} :
              /\ tr' = [obj |-> Entered(r.t), dirs |-> r.dirs]
              /\ tr_call' = [NoTrCall EXCEPT !.op = "init", !.argv = argv, !.err = r.err,
                                             !.had_io = tr.obj.has_io,
                                             !.dels = r.t.dels,
                                             !.open_err = r.open_err,
                                             !.dirs0 = tr.dirs,
                                             !.stderr = r.stderr, !.opened = r.opened,
                                             !.job_called = r.job_called,
                                             !.job_err = r.job_err,
                                             !.job_dir = r.t.job_dir, !.init_err = r.err]
    /\ UNCHANGED <<io_vars, mv_vars, zh_vars>>

\* ft_transform::run()
TrRun ==
    /\ tr_call.op # "main"
    /\ \E l \in {NoProbe, [err |-> EIO, extents |-> <<>>]}, x \in {0, ENOSPC}, e \in {0, EIO} :
          \E r \in {run(tr.obj, [read |-> [loop |-> l, zero |-> NoProbe],
                                 write_err |-> x, work_err |-> e])} :
              /\ tr' = [tr EXCEPT !.obj = Entered(r.t)]
              /\ tr_call' = [NoTrCall EXCEPT !.op = "run", !.err = r.err,
                                             !.had_io = tr.obj.has_io,
                                             !.dels = r.t.dels,
                                             !.job_dir = r.t.job_dir,
                                             !.calls = r.calls, !.saved = r.saved,
                                             !.was_open = is_initialized(tr.obj),
                                             !.read_err = l.err, !.write_err = x,
                                             !.work_err = e]
    /\ UNCHANGED <<io_vars, mv_vars, zh_vars>>

\* ft_transform::quit()
TrQuit ==
    /\ tr_call.op # "main"
    /\ tr' = [tr EXCEPT !.obj = Entered(quit(tr.obj))]
    /\ tr_call' = [NoTrCall EXCEPT !.op = "quit", !.job_dir = tr.obj.job_dir,
                                   !.had_io = tr.obj.has_io,
                                   !.dels = quit(tr.obj).dels,
                                   !.dirs0 = tr.dirs]
    /\ UNCHANGED <<io_vars, mv_vars, zh_vars>>

TransformNext ==
    \/ TrMain
    \/ TrInitCall
    \/ TrRun
    \/ TrQuit

SpecTransform == TrInit /\ [][TransformNext]_vars

(***************************************************************************)
(* The hole zeroer state machine                                           *)
(***************************************************************************)
\* the largest power of two that divides n (n > 0), as an exponent
RECURSIVE Ctz(_)
Ctz(n) == IF n % 2 = 1 THEN 0 ELSE 1 + Ctz(n \div 2)

\* the extents a save-file may hold: inside the device, ascending and
\* disjoint both in the loop file and on the device
SaveExtent(dev_len) ==
    {e \in {[physical |-> p, logical |-> l, length |-> n] :
                p \in 0..(dev_len - 1), l \in 0..(dev_len - 1), n \in 1..dev_len} :
        e.logical + e.length <= dev_len /\ e.physical + e.length <= dev_len}
SaveFiles(dev_len) ==
    {es \in UNION {[1..n -> SaveExtent(dev_len)] : n \in 0..MaxExtents} :
        /\ \A k \in DOMAIN es : \A m \in DOMAIN es :
              k < m => /\ es[k].logical + es[k].length <= es[m].logical
                       /\ es[k].physical + es[k].length <= es[m].physical}

\* the bitmasks a save-file may hold with these extents: the block size they
\* stand for divides every offset, every length and the device length
Divides(mask, n) == mask = 0 \/ n % Pow2(Ctz(mask)) = 0
SaveMasks(dev_len, es) ==
    {m \in 0..(UoffMod - 1) :
        /\ Divides(m, dev_len)
        /\ \A k \in DOMAIN es : /\ Divides(m, es[k].physical)
                                /\ Divides(m, es[k].logical)
                                /\ Divides(m, es[k].length)}

ZhInit ==
    /\ zh \in UNION {UNION {{NewZh(n, es, m) : m \in SaveMasks(n, es)} : es \in SaveFiles(n)} :
                     n \in 0..MaxZeroLen}
    /\ IoIdle
    /\ MvIdle
    /\ TrIdle

\* lines 39-59
ZhLoad ==
    /\ zh.pc = "start"
    /\ \E fail \in {"none", "open", "size", "fopen", "load"} : zh' = zh_load(zh, fail)
    /\ UNCHANGED <<io_vars, mv_vars, tr_vars>>

\* lines 61-66 and, when the loop ends, 69-79
ZhCtz ==
    /\ zh.pc = "ctz"
    /\ zh' = zh_ctz(zh)
    /\ UNCHANGED <<io_vars, mv_vars, tr_vars>>

\* lines 80-86
ZhSeek ==
    /\ zh.pc = "seek"
    /\ \E ok \in BOOLEAN : zh' = zh_seek(zh, ok)
    /\ UNCHANGED <<io_vars, mv_vars, tr_vars>>

\* lines 87-95
ZhWrite ==
    /\ zh.pc = "write"
    /\ \E n \in 0..ff_min2(zh.left, ZERO_BUF_LEN) : zh' = zh_write(zh, n)
    /\ UNCHANGED <<io_vars, mv_vars, tr_vars>>

ZeroNext ==
    \/ ZhLoad
    \/ ZhCtz
    \/ ZhSeek
    \/ ZhWrite

SpecZero == ZhInit /\ [][ZeroNext]_vars

\* the program runs until it returns
SpecZeroLive == SpecZero /\ WF_vars(ZeroNext)

(***************************************************************************)
(* Properties of create_storage                                            *)
(***************************************************************************)
\* the last completed call is a create_storage() that got past its guard
CsRan == io_call.op = "create_storage" /\ io_call.cs.stage # "returned"

\* C6: whenever create_storage() fails after the anonymous reservation was
\* mapped, and no unlink() was refused by the system, on return the
\* reservation is unmapped (storage_mmap = MAP_FAILED, storage_mmap_size = 0)
\* and the secondary-storage file, if it was created, no longer exists.
C6_FailureUnwinds ==
    (CsRan /\ io_call.cs.reserved /\ io_call.err # 0 /\ ~io_call.cs.unlink_failed)
        => /\ io.storage_mmap = MAP_FAILED
           /\ io.storage_mmap_size = 0
           /\ io_call.cs.sec_created => ~io.sec_file.exists

\* C7: when posix_fallocate() fails but every write() of the zero-fill loop
\* succeeds, create_secondary_storage() returns 0, the secondary file is
\* exactly secondary_len bytes long, stays open and is not unlinked.
C7_FallbackWriteSucceeds ==
    (CsRan /\ io_call.cs.falloc_failed /\ io_call.cs.filled)
        => /\ io_call.cs.css_err = 0
           /\ io.sec_file.exists
           /\ Len(io.sec_file.data) = io_call.cs.secondary_len
           /\ is_open0(io, FC_SECONDARY_STORAGE)
           /\ ~io_call.cs.unlinked

\* C25: when create_secondary_storage() has gone through its write() loop and
\* returned 0, the loop wrote secondary_len bytes in all, never asked write()
\* for more than zero_len bytes or more than was left, and the secondary
\* file holds secondary_len bytes that are all zero.
C25_FallbackWritesZeros ==
    (CsRan /\ io_pc # "fill" /\ io_call.cs.chunk_max > 0 /\ io_call.cs.css_err = 0)
        => /\ io_call.cs.written = io_call.cs.secondary_len
           /\ io_call.cs.chunk_max <= ff_min2(zero_len, io_call.cs.secondary_len)
           /\ io.sec_file.exists
           /\ io.sec_file.data = Zeros(io_call.cs.secondary_len)

\* C28: whenever a create_storage() that got past its guard has returned an
\* error, wherever it failed, the SECONDARY-STORAGE descriptor is not open
\* and storage_mmap is MAP_FAILED, and the next create_storage() is not
\* refused with -EISCONN.
C28_FailedCreateCanRetry ==
    (CsRan /\ io_pc # "fill" /\ io_call.err # 0)
        => /\ ~is_open0(io, FC_SECONDARY_STORAGE)
           /\ io.storage_mmap = MAP_FAILED
           /\ \A secondary_len \in SecondaryLens :
                  create_storage_begin(io, secondary_len, "none").err # -EISCONN

\* C8: whenever create_storage(secondary_len) returns 0, storage_mmap_size is
\* the sum of the lengths of the primary-storage extents plus secondary_len,
\* and the running offset after the last replaced extent is storage_mmap_size.
C8_SizeIsBudget ==
    (CsRan /\ io_call.err = 0)
        => /\ io_call.cs.primary_sum = SumLen(io.primary_storage)
           /\ io.storage_mmap_size = io_call.cs.primary_sum + io_call.cs.secondary_len
           /\ io_call.cs.mem_offset = io.storage_mmap_size
           /\ Len(io.mem) = io.storage_mmap_size

\* a create_storage() that succeeded with both primary and secondary storage
C8_Witness ==
    /\ CsRan
    /\ io_call.err = 0
    /\ Len(io.primary_storage) >= 2
    /\ io_call.cs.secondary_len > 1
    /\ io_call.cs.replaced = Len(io.primary_storage) + 1

\* the offset in the reservation of the k-th primary-storage extent
PrimaryOffset(k) == SumLen(SubSeq(io.primary_storage, 1, k - 1))

\* the cells [off, off + extent.length) of the reservation map the bytes of
\* the file 'kind' from extent.physical on
MappedAt(off, extent, kind) ==
    /\ off + extent.length <= Len(io.mem)
    /\ \A j \in 1..extent.length : io.mem[off + j] = Cell(kind, extent.physical + j - 1)

\* C22: after create_storage() returned 0, the k-th primary-storage extent is
\* mapped from the device at the offset that is the sum of the lengths of
\* the extents before it, and its user_data is the reservation address plus
\* this offset; with secondary_len > 0 the secondary extent is (physical 0,
\* logical 0, length secondary_len), mapped from the secondary file after
\* the primary extents; the reservation is storage_mmap_size long and every
\* cell of it belongs to one of these mappings.
C22_ExtentsMappedInOrder ==
    (CsRan /\ io_call.err = 0)
        => /\ \A k \in DOMAIN io.primary_storage :
                  /\ io.primary_storage[k].user_data = io.storage_mmap + PrimaryOffset(k)
                  /\ MappedAt(PrimaryOffset(k), io.primary_storage[k], "dev")
           /\ io_call.cs.secondary_len > 0
                  => /\ io.secondary_storage.physical = 0
                     /\ io.secondary_storage.logical = 0
                     /\ io.secondary_storage.length = io_call.cs.secondary_len
                     /\ io.secondary_storage.user_data
                            = io.storage_mmap + SumLen(io.primary_storage)
                     /\ MappedAt(SumLen(io.primary_storage), io.secondary_storage, "sec")
           /\ Len(io.mem) = io.storage_mmap_size
           /\ Len(io.mem) = SumLen(io.primary_storage) + io_call.cs.secondary_len
           /\ \A c \in DOMAIN io.mem : io.mem[c].kind \in {"dev", "sec"}

\* two primary extents that are not adjacent on the device and a secondary
\* extent, mapped one after the other
C22_Witness ==
    /\ CsRan
    /\ io_call.err = 0
    /\ Len(io.primary_storage) = 2
    /\ io.primary_storage[2].physical > io.primary_storage[1].physical + io.primary_storage[1].length
    /\ io.primary_storage[2].user_data = io.storage_mmap + io.primary_storage[1].length
    /\ io_call.cs.secondary_len = 2
    /\ io.mem[Len(io.mem)] = Cell("sec", 1)

\* the extents of the storage in the order create_storage() maps them
StorageExtents == io.primary_storage \o <<io.secondary_storage>>

\* C16: when a MAP_FIXED mmap() of create_storage() returns another address
\* than the one asked for, the call fails with -EFAULT, the extent being
\* mapped keeps the user_data it had at entry, the running offset is the
\* sum of the lengths of the extents mapped before it, and on return the
\* object holds no reservation (storage_mmap = MAP_FAILED, size 0); unless
\* the munmap() of close_storage() is itself refused, nothing stays mapped.
C16_MovedMapUnwinds ==
    (CsRan /\ io_call.cs.moved)
        => LET k == io_call.cs.replaced + 1
           IN  /\ io_call.err = -EFAULT
               /\ k \in DOMAIN StorageExtents
               /\ StorageExtents[k].user_data = io_call.cs.user_data0[k]
               /\ io_call.cs.mem_offset = SumLen(SubSeq(StorageExtents, 1, k - 1))
               /\ io.storage_mmap = MAP_FAILED
               /\ io.storage_mmap_size = 0
               /\ ~io_call.cs.munmap_failed => io.mem = <<>>

\* the mmap() of the second extent returned another address after the first
\* extent was mapped, and the reservation was unmapped
C16_Witness ==
    /\ CsRan
    /\ io_call.cs.moved
    /\ io_call.cs.replaced = 1
    /\ io_call.cs.mem_offset > 0
    /\ StorageExtents[1].user_data = MmapAddr
    /\ StorageExtents[2].user_data = 0
    /\ io.mem = <<>>

(***************************************************************************)
(* Properties of open                                                      *)
(***************************************************************************)
\* the last completed call is an open() that was not refused as already open
OpenRan == io_call.op = "open" /\ io_call.err # EISCONN

DevDiffers(dev) == \E i \in DOMAIN dev : dev[i] # dev[FC_DEVICE]

\* C9: if open() fails at any step (opening one of the three paths, reading
\* a dev_t, reading the device size, or the containment check), then on
\* return fd[DEVICE], fd[LOOP-FILE] and fd[ZERO-FILE] are all -1 and
\* is_open() is false.
C9_FailedOpenClosesAll ==
    (OpenRan /\ io_call.err # 0)
        => /\ \A i \in 0..(FC_FILE_COUNT - 1) : io.fd[i] = -1
           /\ ~is_open(io)

\* an open() that failed after the device and the loop file were opened
C9_Witness ==
    /\ OpenRan
    /\ io_call.err # 0
    /\ io_call.orc.fail_step \in {"open", "dev"}
    /\ io_call.orc.fail_i = FC_ZERO_FILE

\* C10: open() returns 0 only if the dev_t of LOOP-FILE and of ZERO-FILE both
\* equal the dev_t of the device; when the three paths open and report their
\* dev_t and one differs, open() returns EINVAL and leaves the object closed.
C10_ContainmentChecked ==
    OpenRan
        => /\ io_call.err = 0 => ~DevDiffers(io_call.orc.dev)
           /\ (io_call.orc.fail_step = "none" /\ DevDiffers(io_call.orc.dev))
                  => /\ io_call.err = EINVAL
                     /\ ~is_open(io)
                     /\ \A i \in 0..(FC_FILE_COUNT - 1) : io.fd[i] = -1

\* an open() refused because only ZERO-FILE lies on another file system
C10_Witness ==
    /\ OpenRan
    /\ io_call.orc.fail_step = "none"
    /\ io_call.orc.dev[FC_LOOP_FILE] = io_call.orc.dev[FC_DEVICE]
    /\ io_call.orc.dev[FC_ZERO_FILE] # io_call.orc.dev[FC_DEVICE]
    /\ io_call.err = EINVAL

\* both descriptors read_extents() reads from are open
ExtentFdsOpen == is_open0(io, FC_LOOP_FILE) /\ is_open0(io, FC_ZERO_FILE)

\* C19: is_open_extents() is true only when the device length is not zero
\* and the LOOP-FILE and ZERO-FILE descriptors are both open; a
\* read_extents() called while one of them is closed returns ENOTCONN,
\* calls ff_read_extents_posix() not once and leaves the vectors as they were.
C19_ExtentsNeedBothOpen ==
    /\ is_open_extents(io) => io.dev_len # 0 /\ ExtentFdsOpen
    /\ (io_call.op = "read_extents" /\ ~ExtentFdsOpen)
           => /\ io_call.err = ENOTCONN
              /\ io_call.asked = 0
              /\ ext = io_call.ext0

(***************************************************************************)
(* Properties of the tree mover                                            *)
(***************************************************************************)
SrcPaths == {"s", "s/a", "s/b"}

\* the last call is a move() that was not simulated
MoveRan == mv_call.op = "move" /\ ~mv_sim

\* the initial rename failed and move(source_root, target_root) ran
Recursed == \E k \in DOMAIN mv_call.log : mv_call.log[k][1] = "umask"

\* the target entry has the content bytes (for a link, the text), mode,
\* owner and time stamp of the source entry
SameEntry(t, s) ==
    /\ t.type = s.type
    /\ t.data = s.data
    /\ t.link = s.link
    /\ t.mode = s.mode
    /\ t.owner = s.owner
    /\ t.mtime = s.mtime

\* C1: for a source tree without symbolic links and every initial state of
\* the target path, when the initial rename fails, no system call is refused
\* and the recursive move returns 0, every target entry has the content
\* bytes, mode, owner and mtime its source entry had before the move, and no
\* source entry exists any more.
C1_MoveIsFaithful ==
    (MoveRan /\ Recursed /\ mv_call.fault = NoFault /\ mv_call.err = 0
        /\ \A p \in SrcPaths : mv_call.fs0[p].type # "lnk")
        => \A p \in SrcPaths :
              Exists(mv_call.fs0, p)
                  => /\ ~Exists(fs, p)
                     /\ SameEntry(fs[Twin(p)], mv_call.fs0[p])

\* C2: when two source paths are names of one inode, after a move that
\* returned 0 the two target paths are names of one inode too.
C2_HardLinksKept ==
    (MoveRan /\ Recursed /\ mv_call.err = 0
        /\ mv_call.fs0["s/a"].type = "reg"
        /\ mv_call.fs0["s/a"].ino = mv_call.fs0["s/b"].ino)
        => /\ Exists(fs, "t/a")
           /\ fs["t/a"].ino = fs["t/b"].ino

\* C3: after move_special succeeds on a source symlink whose text is X, the
\* target path is a symlink whose text is X, and no other path is created.
C3_SymlinkAtTarget ==
    (MoveRan /\ Recursed /\ mv_call.err = 0 /\ mv_call.fs0[source_root].type = "lnk")
        => /\ fs[target_root].type = "lnk"
           /\ fs[target_root].link = mv_call.fs0[source_root].link
           /\ \A p \in Paths \ {source_root, target_root} : fs[p] = mv_call.fs0[p]

\* the system calls simulation mode is to skip
Destructive ==
    {"mknod", "mkfifo", "symlink", "mkdir", "rmdir", "open_wr", "write", "unlink",
     "utimes", "lchown", "chmod", "rename"}

\* C4: in simulation mode a complete run of move() issues none of the
\* destructive system calls, leaves the file system as it was and, no system
\* call being refused, reports success.
C4_SimulationChangesNothing ==
    (mv_call.op = "move" /\ mv_sim /\ mv_call.fault = NoFault)
        => /\ \A k \in DOMAIN mv_call.log : mv_call.log[k][1] \notin Destructive
           /\ fs = mv_call.fs0
           /\ mv_call.err = 0

\* C5: when a child of the source directory is a UNIX socket and the only
\* system call that fails is the mknod() creating it at the target, the
\* directory move does not fail and the other child, a regular file, is moved.
C5_SocketFailureIsWarning ==
    \A n \in Names : \A m \in Names \ {n} :
        (MoveRan /\ Recursed
            /\ mv_call.fs0[Child(source_root, n)].type = "sock"
            /\ mv_call.fs0[Child(source_root, m)].type = "reg"
            /\ mv_call.fault = <<"mknod", Child(target_root, n)>>)
            => /\ mv_call.err = 0
               /\ ~Exists(fs, Child(source_root, m))
               /\ fs[Child(target_root, m)].type = "reg"

\* the k-th system call of the last call is op on the path p
Issued(k, op, p) ==
    /\ k \in DOMAIN mv_call.log
    /\ mv_call.log[k][1] = op
    /\ mv_call.log[k][2] = p

\* the last call is a move() whose recursion reached the source entry p:
\* move(p, Twin(p)) was called and its lstat() succeeded
Visited(p) ==
    /\ mv_call.op = "move"
    /\ \E k \in DOMAIN mv_call.log : mv_call.log[k] = <<"lstat", p, 0>>

\* C17: when move() reaches a source entry that is neither a regular file,
\* a directory, a device, a socket, a fifo nor a symbolic link, it fails
\* with -EOPNOTSUPP, the target path is left as it was and the source entry
\* is not unlinked.
C17_UnknownTypeUnsupported ==
    \A p \in SrcPaths :
        (Visited(p) /\ mv_call.fs0[p].type = "unk")
            => /\ mv_call.err = -EOPNOTSUPP
               /\ fs[Twin(p)] = mv_call.fs0[Twin(p)]
               /\ fs[p] = mv_call.fs0[p]
               /\ \A k \in DOMAIN mv_call.log :
                      <<mv_call.log[k][1], mv_call.log[k][2]>> # <<"unlink", p>>

\* the recursive move called move(p, Twin(p)): it issued lstat(p)
Stated(p) == \E k \in DOMAIN mv_call.log : Issued(k, "lstat", p)

\* C18: move() issues rename(source_root, target_root) first; when it
\* succeeds nothing else is issued and move() returns 0; when it fails,
\* whatever the error, umask() and move(source_root, target_root) follow.
\* In simulation mode no rename is issued, the recursive move runs and, no
\* system call being refused, it visits every entry of the source tree.
C18_RenameFirst ==
    mv_call.op = "move" =>
        LET log == mv_call.log
        IN  IF ~mv_sim
            THEN /\ Issued(1, "rename", source_root)
                 /\ log[1][3] = 0 => Len(log) = 1 /\ mv_call.err = 0
                 /\ log[1][3] # 0 => Issued(2, "umask", "") /\ Issued(3, "lstat", source_root)
            ELSE /\ \A k \in DOMAIN log : log[k][1] # "rename"
                 /\ Issued(1, "umask", "")
                 /\ Issued(2, "lstat", source_root)
                 /\ mv_call.fault = NoFault
                        => \A p \in SrcPaths : Exists(mv_call.fs0, p) => Stated(p)

\* the system call that creates a target entry of the given type
CreateOp(type) ==
    CASE type = "reg" -> "open_wr"
      [] type \in {"chr", "blk", "sock"} -> "mknod"
      [] type = "fifo" -> "mkfifo"
      [] type = "lnk" -> "symlink"
      [] OTHER -> "none"

\* the k-th system call of the last call is op on the path p and succeeded
Done(k, op, p) == Issued(k, op, p) /\ mv_call.log[k][3] = 0

\* C20: in a move that is not simulated, a source entry that is no directory
\* is unlinked only after the call creating its target entry succeeded, the
\* bytes of a file were written, and the lchown and (unless it is a symbolic
\* link) the chmod of copy_stat on the target succeeded; an entry that was
\* not unlinked is still what it was.
C20_UnlinkAfterComplete ==
    \A p \in SrcPaths :
        (MoveRan /\ Recursed /\ mv_call.fs0[p].type \notin {"none", "dir"})
            => LET s0 == mv_call.fs0[p]
                   t == Twin(p)
               IN  /\ \A u \in DOMAIN mv_call.log :
                          Done(u, "unlink", p)
                              => /\ \E k \in 1..(u - 1) : Done(k, CreateOp(s0.type), t)
                                 /\ (s0.type = "reg" /\ s0.data # <<>>)
                                        => \E k \in 1..(u - 1) : Done(k, "write", t)
                                 /\ \E k \in 1..(u - 1) : Done(k, "lchown", t)
                                 /\ s0.type # "lnk" => \E k \in 1..(u - 1) : Done(k, "chmod", t)
                                 /\ fs[t].type = s0.type
                   /\ (\A u \in DOMAIN mv_call.log : ~Done(u, "unlink", p)) => fs[p] = s0

\* the place in the log of the first call of op on p, 0 when there is none
Pos(op, p) ==
    IF \E k \in DOMAIN mv_call.log : Issued(k, op, p)
    THEN CHOOSE k \in DOMAIN mv_call.log :
             Issued(k, op, p) /\ \A j \in 1..(k - 1) : ~Issued(j, op, p)
    ELSE 0

\* both calls were issued, op1 on p1 before op2 on p2
Before(op1, p1, op2, p2) == 0 < Pos(op1, p1) /\ Pos(op1, p1) < Pos(op2, p2)

\* the system calls on the entries of the source root and on their targets
ChildCalls ==
    {k \in DOMAIN mv_call.log :
        mv_call.log[k][2] \in {"s/a", "s/b", "t/a", "t/b"} \/ mv_call.log[k][1] = "readdir"}

\* the names of the source root in the order readdir() listed them
Listed == SelectSeq(mv_call.order, LAMBDA n : Exists(mv_call.fs0, Child(source_root, n)))

CopyStatRan == mv_call.op = "copy_stat"

\* C15: copy_stat issues utimes, then lchown, then chmod: lchown is issued
\* whether utimes failed or not; when lchown fails nothing follows it and the
\* call fails; chmod, never before lchown, is issued exactly when lchown
\* succeeded and the source is no symbolic link; the call returns 0 exactly
\* when lchown and the chmod that was issued, if any, succeeded.
C15_CopyStatOrder ==
    CopyStatRan =>
        LET log == mv_call.log
            t == mv_call.target
            chmods == mv_call.st.type # "lnk" /\ log[2][3] = 0
        IN  /\ Issued(1, "utimes", t)
            /\ Issued(2, "lchown", t)
            /\ Len(log) = IF chmods THEN 3 ELSE 2
            /\ chmods => Issued(3, "chmod", t)
            /\ mv_call.err = 0 <=> \A k \in 2..Len(log) : log[k][3] = 0

\* a copy_stat whose utimes failed and whose lchown and chmod then succeeded
C15_Witness ==
    /\ CopyStatRan
    /\ mv_call.log[1][3] # 0
    /\ Issued(3, "chmod", mv_call.target)
    /\ mv_call.err = 0
    /\ "suid" \in fs[target_root].mode

\* C24: after close() or close_storage() has returned, whatever state it was
\* called in and whether or not munmap() failed, storage_mmap is MAP_FAILED,
\* storage_mmap_size is 0 and the SECONDARY-STORAGE descriptor is closed;
\* after close() no descriptor of the object is open, in fd[] or in the
\* process, and one more close() leaves the object as it is.
C24_CloseReleasesAll ==
    /\ io_call.op \in {"close", "close_storage"} /\ io_pc # "fill"
           => /\ io.storage_mmap = MAP_FAILED
              /\ io.storage_mmap_size = 0
              /\ ~is_open0(io, FC_SECONDARY_STORAGE)
    /\ io_call.op = "close" /\ io_pc # "fill"
           => /\ \A i \in Slots : ~is_open0(io, i)
              /\ io.os_open = {}
              /\ close(io, TRUE, -1) = io

\* the extents a completed read_extents() appended to a vector
Appended(before, after) == SubSeq(after, Len(before) + 1, Len(after))

C27_RunOrder ==
    tr_call.op = "run"
        => /\ \E n \in 0..Len(RunCalls) : tr_call.calls = SubSeq(RunCalls, 1, n)
           /\ ~tr_call.was_open <=> tr_call.calls = <<>>
           /\ ~tr_call.was_open => tr_call.err = ENOTCONN
           /\ Len(tr_call.calls) = 1 <=> tr_call.was_open /\ tr_call.read_err # 0
           /\ Len(tr_call.calls) = 1 => tr_call.err = tr_call.read_err
           /\ Len(tr_call.calls) = 2 <=> /\ tr_call.was_open
                                        /\ tr_call.read_err = 0
                                        /\ tr_call.write_err # 0
           /\ Len(tr_call.calls) = 2 => tr_call.err = tr_call.write_err
           /\ Len(tr_call.calls) = 3
                  => /\ tr_call.err = tr_call.work_err
                     /\ tr_call.saved = tr_call.job_dir
           /\ Len(tr_call.calls) < 3 => tr_call.saved = NullDir

\* a run() whose write_extents() failed after read_extents() succeeded
C27_Witness ==
    /\ tr_call.op = "run"
    /\ tr_call.was_open
    /\ tr_call.read_err = 0
    /\ tr_call.write_err # 0
    /\ tr_call.work_err = 0
    /\ tr_call.calls = <<"read_extents", "write_extents">>
    /\ tr_call.err # 0
    /\ tr_call.job_dir # NullDir

\* the open() of move_file() on the source file p was issued and failed
OpenRdFailed(p) ==
    \E k \in DOMAIN mv_call.log : Issued(k, "open_rd", p) /\ mv_call.log[k][3] # 0

\* close() was called afterwards on every descriptor an open() of the call
\* returned (what close() returns is not looked at)
AllClosed ==
    \A k \in DOMAIN mv_call.log :
        (mv_call.log[k][1] \in {"open_rd", "open_wr"} /\ mv_call.log[k][3] = 0)
            => \E j \in (k + 1)..Len(mv_call.log) : Issued(j, "close", mv_call.log[k][2])

\* C30: when move_file() cannot open its source file for reading, move()
\* returns an error, no open() of the target file is issued, the target
\* path is what it was before, and the source file is not unlinked and is
\* what it was; whether move_file() succeeds or fails, every descriptor it
\* opened is closed before it returns.
C30_SourceOpenFailure ==
    MoveRan
        => /\ AllClosed
           /\ \A p \in SrcPaths :
                  OpenRdFailed(p)
                      => /\ mv_call.err # 0
                         /\ \A k \in DOMAIN mv_call.log : ~Issued(k, "open_wr", Twin(p))
                         /\ fs[Twin(p)] = mv_call.fs0[Twin(p)]
                         /\ \A k \in DOMAIN mv_call.log : ~Issued(k, "unlink", p)
                         /\ fs[p] = mv_call.fs0[p]

\* how often the call deleted the object x
Deleted(x) == Cardinality({k \in DOMAIN tr_call.dels : tr_call.dels[k] = x})

\* C31: when the open() of init_io_posix() fails, the object it allocated is
\* deleted, once, fm_io is NULL and the transformer is not initialized;
\* when open() succeeds init_io() stores the object in fm_io and it is not
\* deleted. quit() deletes the object fm_io points to, once, leaves fm_io
\* NULL, the job directory name and the directories on disk as they were,
\* and one more quit() deletes nothing. No call deletes an object twice.
C31_IoObjectOwnership ==
    /\ tr_call.op \in {"init", "run", "quit"}
           => Deleted("old") <= 1 /\ Deleted("new") <= 1
    /\ (tr_call.op = "init" /\ tr_call.opened /\ tr_call.open_err # 0)
           => /\ tr_call.err = tr_call.open_err
              /\ Deleted("new") = 1
              /\ ~tr.obj.has_io
              /\ ~is_initialized(tr.obj)
    /\ (tr_call.op = "init" /\ tr_call.opened /\ tr_call.open_err = 0)
           => /\ tr_call.err = 0
              /\ Deleted("new") = 0
              /\ tr.obj.has_io
              /\ is_open0(tr.obj.fm_io, FC_DEVICE)
    /\ (tr_call.op \in {"init", "run", "quit"} /\ ~tr_call.had_io) => Deleted("old") = 0
    /\ tr_call.op = "quit"
           => /\ tr_call.dels = IF tr_call.had_io THEN <<"old">> ELSE <<>>
              /\ ~tr.obj.has_io
              /\ tr.obj.job_dir = tr_call.job_dir
              /\ tr.dirs = tr_call.dirs0
              /\ quit(tr.obj) = tr.obj

\* an init() on a transformer that held an I/O object on an empty device:
\* that object is deleted, the open() of the new one fails and it is deleted
C31_Witness ==
    /\ tr_call.op = "init"
    /\ tr_call.had_io
    /\ tr_call.opened
    /\ tr_call.open_err # 0
    /\ tr_call.dels = <<"old", "new">>
    /\ ~tr.obj.has_io
    /\ tr.obj.job_dir # NullDir

(***************************************************************************)
(* Properties of copy_stream                                               *)
(***************************************************************************)
\* C23: when copy_stream() has returned 0, out_fd received exactly the bytes
\* read from in_fd, in order, and in_fd was read to its end; when a read()
\* failed, a write() returned 0 or a write() failed with another error than
\* EINTR, copy_stream() does not return 0.
C23_CopyIsExact ==
    cp.pc = "done"
        => /\ cp.err = 0 => cp.out = cp.input /\ cp.in_pos = Len(cp.input)
           /\ (cp.failed \/ cp.wrote_zero) => cp.err # 0

(***************************************************************************)
(* Properties of ft_transform                                              *)
(***************************************************************************)
\* C11: for every run of main() whose command line is neither three
\* positional arguments nor the single argument --help, init() reports a usage
\* error and returns 1, no directory is created and no I/O object is opened.
C11_OnlyThreeArguments ==
    (tr_call.op = "main"
        /\ Len(tr_call.argv) # FC_FILE_COUNT + 1
        /\ ~(Len(tr_call.argv) = 2 /\ tr_call.argv[2] = "--help"))
        => /\ tr_call.init_err = 1
           /\ tr_call.err = 1
           /\ tr_call.stderr # <<>>
           /\ tr.dirs = tr_call.dirs0
           /\ ~tr_call.job_called
           /\ ~tr_call.opened

\* the last call is a run of main() in which init_job() got its buffer
JobRan == tr_call.op = "main" /\ tr_call.job_called /\ tr_call.malloc_ok

\* whether the directory of job i could be created when the run started
Creatable(i) ==
    /\ JobDir(i) \notin tr_call.dirs0
    /\ JobDir(i) \notin tr_call.refused
    /\ TopDir \in tr_call.dirs0 \/ TopDir \notin tr_call.refused

\* C12: for every set of job directories found on disk, init_job() succeeds
\* exactly when some directory '.fstransform/job.<i>/' can be created; it then
\* takes the lowest such i >= 1, creates that directory and leaves its path,
\* which ends with '/', in job_dir; when none can be created it returns an
\* error, job_dir is unset and no job directory is created.
C12_LowestFreeJob ==
    JobRan
        => /\ tr_call.job_err = 0 <=> \E i \in JobIds : Creatable(i)
           /\ tr_call.job_err = 0
                  => \E i \in JobIds :
                        /\ Creatable(i)
                        /\ \A j \in 1..(i - 1) : ~Creatable(j)
                        /\ tr_call.job_dir = JobDir(i)
                        /\ tr_call.job_dir[Len(tr_call.job_dir)] = "/"
                        /\ tr.dirs = tr_call.dirs0 \cup {TopDir, JobDir(i)}
           /\ tr_call.job_err # 0
                  => /\ tr_call.job_dir = NullDir
                     /\ tr.dirs \ {TopDir} = tr_call.dirs0 \ {TopDir}

\* init_job() took job 2 because job 1 was on disk already
C12_Witness ==
    /\ JobRan
    /\ tr_call.job_err = 0
    /\ JobDir(1) \in tr_call.dirs0
    /\ tr_call.job_dir = JobDir(2)
    /\ JobDir(2) \in tr.dirs

(***************************************************************************)
(* Properties of ff_zero_loop_file_holes                                   *)
(***************************************************************************)
\* the function returned
ZhDone == zh.pc = "done"

\* byte b of the device lies inside a loop-file extent of the save-file
CoveredByte(b) ==
    \E k \in DOMAIN zh.file_extents :
        /\ zh.file_extents[k].logical <= b
        /\ b < zh.file_extents[k].logical + zh.file_extents[k].length

\* C13: for every device length and every set of loop-file extents of the
\* save-file, when ff_zero_loop_file_holes() returns 0 the bytes it wrote are
\* exactly the bytes of [0, device length) no loop-file extent covers, each
\* of them is zero, and no covered byte was written.
C13_ZeroesExactlyHoles ==
    (ZhDone /\ zh.err = 0)
        => /\ zh.written = {b \in 0..(zh.file_len - 1) : ~CoveredByte(b)}
           /\ \A b \in zh.written : zh.dev[b + 1] = 0
           /\ \A b \in 0..(zh.file_len - 1) : CoveredByte(b) => zh.dev[b + 1] = 1

\* C29: once an ff_posix_lseek() or an ff_posix_write() of a hole has failed,
\* ff_zero_loop_file_holes() seeks to no further hole and writes nothing
\* more: it has left its loops and returns an error that is not 0. It
\* returns 0 only when every lseek and every write of every hole succeeded.
C29_FailureStopsZeroing ==
    (zh.write_failed \/ zh.seek_failed) => (ZhDone /\ zh.err # 0)

\* the block size the holes are computed and written in: 1 << eff_block_size_log2
EffBlockSize == Pow2(zh.eff_block_size_log2)

\* C14 as stated: once the trailing-zero loop has ended the effective block
\* size is 1 << ctz(bitmask) for a non-zero bitmask and 0 for the bitmask 0.
C14_BlockSizeZeroForNoMask ==
    zh.ctz_done
        => /\ zh.file_bitmask # 0 => EffBlockSize = Pow2(Ctz(zh.file_bitmask))
           /\ zh.file_bitmask = 0 => EffBlockSize = 0

\* C14: the trailing-zero loop ends for every bitmask; it leaves
\* eff_block_size_log2 = ctz(bitmask) for a non-zero bitmask and 0 for the
\* bitmask 0, so the effective block size is 1 << ctz(bitmask), and 1 (not 0)
\* for the bitmask 0.
C14_BlockSizeLog2 ==
    /\ [](zh.ctz_done
            => /\ zh.file_bitmask # 0
                    => /\ zh.eff_block_size_log2 = Ctz(zh.file_bitmask)
                       /\ EffBlockSize = Pow2(Ctz(zh.file_bitmask))
               /\ zh.file_bitmask = 0
                    => /\ zh.eff_block_size_log2 = 0
                       /\ EffBlockSize = 1)
    /\ (zh.pc = "ctz" ~> zh.ctz_done)

\* the loop ran twice on the bitmask 4 of a device of four bytes
C14_Witness ==
    /\ zh.ctz_done
    /\ zh.file_bitmask = 4
    /\ zh.eff_block_size_log2 = 2
    /\ zh.file_len = 4

====
